---- MODULE Spec2Model ----
(***************************************************************************)
(* Model of the Scene Scout tray application (ig-event-scraper):          *)
(* the scan orchestrator (handleScan / tryAutoScan), the event ledger     *)
(* kept in the settings store (reviewedEvents, rejectedEvents,            *)
(* hiddenAccounts, reviewHistory) and the capture store on disk.          *)
(*                                                                         *)
(* The main process is single-threaded: every action below is the code    *)
(* that runs between two suspension points (await / .then) of a handler.  *)
(***************************************************************************)
EXTENDS Integers, Sequences, FiniteSets, TLC

\* ------------------------------------------------------------------------
\* Bounds of the model
\* ------------------------------------------------------------------------
MaxOps == 2          \* handler invocations (IPC calls, scans) in one behaviour
MaxScans == 2        \* handleScan invocations that get past the guard
MaxStories == 1      \* stories the traversals of one behaviour look at
MaxElapsed == 8      \* half hours the clock advances after the start
MaxIter == 5         \* passes of the story loop in one runScraper call
MaxCaptures == 2     \* captures saved into one day directory

\* ------------------------------------------------------------------------
\* Program constants, in half hours (tray.ts:285-287)
\* ------------------------------------------------------------------------
AUTO_SCAN_INTERVAL_MS == 8
AUTO_SCAN_MIN_GAP_MS == 7
IDLE_THRESHOLD_SECONDS == 1
\* part_004:14
MAX_STUCK == 3
\* part_004:34: the longest header text taken for a handle is shorter than
UsernameTextLimit == 50
\* Date.now() at launch: more than the minimum gap after the epoch 0
StartTime == AUTO_SCAN_MIN_GAP_MS + 1

\* ------------------------------------------------------------------------
\* Captured events.  A key "<date>/<account>_<time>.png" is modelled by the
\* three components scanAccountImages reads back from it.
\* ------------------------------------------------------------------------
Accounts == {"alice", "alice2"}
\* Order of the file names "<account>_<time>.png" under String.localeCompare
\* (tray.ts:901): the collation puts "_" before every digit, so "alice_..."
\* sorts before "alice2_...".
AccountRank == [a \in Accounts |-> IF a = "alice" THEN 1 ELSE 2]
\* Order of the same file names by UTF-16 code units (the order of < on
\* strings): "2" (0x32) is less than "_" (0x5F), so "alice2_..." comes first.
CodeUnitRank == [a \in Accounts |-> IF a = "alice2" THEN 1 ELSE 2]
Key(d, a, t) == [date |-> d, account |-> a, time |-> t]
AllKeys == {Key(1, "alice", 1), Key(2, "alice", 1), Key(1, "alice2", 2)}
NoKey == Key(0, "", 0)
\* What a launch finds in the events directory and in the persisted store:
\* one capture; three captures; three captures after an earlier session
\* approved one event of alice and hid alice2; one capture, approved, with an
\* approved key whose file has since been removed from the events directory
\* and the history entry of an earlier batch.
InitialStates ==
    {[files |-> {Key(1, "alice", 1)}, reviewed |-> <<>>, rejected |-> <<>>,
      hidden |-> <<>>, history |-> <<>>],
     [files |-> AllKeys, reviewed |-> <<>>, rejected |-> <<>>, hidden |-> <<>>,
      history |-> <<>>],
     [files |-> AllKeys, reviewed |-> <<Key(1, "alice", 1)>>,
      rejected |-> <<Key(1, "alice2", 2)>>, hidden |-> <<"alice2">>,
      history |-> <<>>],
     [files |-> {Key(1, "alice", 1)},
      reviewed |-> <<Key(1, "alice2", 2), Key(1, "alice", 1)>>,
      rejected |-> <<>>, hidden |-> <<>>,
      history |-> <<[timestamp |-> 0, accounts |-> <<"alice">>,
                     approvedCount |-> 1, rejectedCount |-> 0]>>]}

Range(s) == {s[i] : i \in DOMAIN s}
Includes(s, x) == \E i \in DOMAIN s : s[i] = x
NoDuplicates(s) == \A i, j \in DOMAIN s : s[i] = s[j] => i = j

\* Order of two keys as directory entries: date directory, then file name.
DirBefore(k1, k2) ==
    \/ k1.date < k2.date
    \/ k1.date = k2.date /\ AccountRank[k1.account] < AccountRank[k2.account]
    \/ k1.date = k2.date /\ k1.account = k2.account /\ k1.time < k2.time

RECURSIVE SortedSeq(_)
SortedSeq(S) ==
    IF S = {} THEN <<>>
    ELSE LET m == CHOOSE k \in S : \A o \in S \ {k} : DirBefore(k, o)
         IN <<m>> \o SortedSeq(S \ {m})

RECURSIVE SortedAccounts(_)
SortedAccounts(S) ==
    IF S = {} THEN <<>>
    ELSE LET m == CHOOSE a \in S : \A o \in S \ {a} : AccountRank[a] < AccountRank[o]
         IN <<m>> \o SortedAccounts(S \ {m})

\* scanAccountImages(): account -> its images, in directory order.
scanAccountImages(files) ==
    [a \in Accounts |-> SortedSeq({k \in files : k.account = a})]

VARIABLES
    isScanning,        \* tray.ts:278
    reviewedEvents,    \* store key, array of keys
    rejectedEvents,    \* store key, array of keys
    hiddenAccounts,    \* store key, array of account names
    reviewHistory,     \* store key, array of ReviewHistoryEntry
    store,             \* the scalar store keys
    disk,              \* files under events/
    sessionExists,     \* existsSync(getSessionPath())
    now,               \* Date.now(), in half hours
    scan,              \* the handleScan invocations, by number
    pending,           \* handlers suspended in scanAccountImages().then
    unreviewedResult,  \* value last returned by get-unreviewed-events
    budget,            \* invocations made so far, per kind
    scraper,           \* one runScraper call, step by step (part_004)
    twin,              \* the same call, made with another hiddenAccounts list
    capture,           \* file names of captures: written, listed, recorded
    request,           \* one scene-scout:// request and its response (part_005)
    last               \* history: the last ledger event

ledger == <<reviewedEvents, rejectedEvents, hiddenAccounts>>
vars == <<isScanning, reviewedEvents, rejectedEvents, hiddenAccounts,
          reviewHistory, store, disk, sessionExists, scraper, twin, capture, request, now, scan,
          pending, unreviewedResult, budget, last>>
scanVars == <<isScanning, reviewHistory, store, sessionExists, scraper, twin, capture, request, now, scan>>

\* ------------------------------------------------------------------------
\* History records (not program state).  `last` describes the last event that
\* wrote the ledger.  Its field chain follows a hide and an unhide of one
\* account that nothing else interrupts:
\*   "hide" -> "hide-done" -> "hide-done-unhide" -> "serial-complete"
\*   "hide" | "unhide" -> "both" -> "both-one-done" -> "concurrent-complete"
\* A review records in chain how it relates to the event before it.
\* ------------------------------------------------------------------------
Snapshot ==
    [hidden |-> hiddenAccounts, reviewed |-> reviewedEvents,
     rejected |-> rejectedEvents, files |-> disk]
NoSnapshot == [hidden |-> <<>>, reviewed |-> <<>>, rejected |-> <<>>, files |-> {}]

Event(ev, account, key, approved, chain, unrev, count, start) ==
    [ev |-> ev, account |-> account, key |-> key, approved |-> approved,
     chain |-> chain, unrev |-> unrev, count |-> count, start |-> start]
NoEvent == Event("none", "", NoKey, FALSE, "", {}, 0, NoSnapshot)

CanInvoke == budget.ops < MaxOps
Spend(kind) ==
    IF kind = "scans" THEN [budget EXCEPT !.ops = @ + 1, !.scans = @ + 1]
    ELSE IF kind = "stories" THEN [budget EXCEPT !.stories = @ + 1]
    ELSE [budget EXCEPT !.ops = @ + 1]

RemoveAt(s, i) == SubSeq(s, 1, i - 1) \o SubSeq(s, i + 1, Len(s))

\* Keys of an account on disk that are in neither ledger set.
UnreviewedOf(a) ==
    {k \in disk : k.account = a
                  /\ ~Includes(reviewedEvents, k) /\ ~Includes(rejectedEvents, k)}

\* ------------------------------------------------------------------------
\* review-event (tray.ts:905-917)
\* ------------------------------------------------------------------------
reviewEventHandlerAlwaysAppends(key, approved) ==
    /\ budget.ops < MaxOps
    /\ IF approved
       THEN /\ reviewedEvents' = Append(reviewedEvents, key)
            /\ UNCHANGED rejectedEvents
       ELSE /\ rejectedEvents' = Append(rejectedEvents, key)
            /\ UNCHANGED reviewedEvents
    /\ budget' = Spend("ops")
    /\ last' = Event("review", key.account, key, approved,
                     IF last.ev = "review" /\ last.key = key
                     THEN IF last.approved = approved THEN "repeat" ELSE "reversal"
                     ELSE "", {}, 0, NoSnapshot)
    /\ UNCHANGED <<scanVars, hiddenAccounts, disk, pending, unreviewedResult>>

reviewEventHandler(key, approved) ==
    /\ CanInvoke
    /\ IF approved
       THEN /\ reviewedEvents' = IF Includes(reviewedEvents, key)
                                 THEN reviewedEvents
                                 ELSE Append(reviewedEvents, key)
            /\ UNCHANGED rejectedEvents
       ELSE /\ rejectedEvents' = IF Includes(rejectedEvents, key)
                                 THEN rejectedEvents
                                 ELSE Append(rejectedEvents, key)
            /\ UNCHANGED reviewedEvents
    /\ budget' = Spend("ops")
    /\ last' = Event("review", key.account, key, approved,
                     IF last.ev = "review" /\ last.key = key
                     THEN IF last.approved = approved THEN "repeat" ELSE "reversal"
                     ELSE "", {}, 0, NoSnapshot)
    /\ UNCHANGED <<scanVars, hiddenAccounts, disk, pending, unreviewedResult>>

\* ------------------------------------------------------------------------
\* hide-account (tray.ts:944-971): the part before scanAccountImages()
\* resolves, and the .then callback.
\* ------------------------------------------------------------------------
\* A suspended handler: the locals its callback closes over.  unrevAtRequest
\* is history: the account's unreviewed keys when the call was made.
Call(op, username, reviewedSnap, rejectedSnap, unrevAtRequest) ==
    [op |-> op, username |-> username,
     reviewedSnap |-> reviewedSnap, rejectedSnap |-> rejectedSnap,
     unrevAtRequest |-> unrevAtRequest]

hideAccountHandler(username) ==
    /\ CanInvoke
    /\ hiddenAccounts' = IF Includes(hiddenAccounts, username)
                         THEN hiddenAccounts
                         ELSE Append(hiddenAccounts, username)
    /\ pending' = Append(pending,
                         Call("hide", username, reviewedEvents, rejectedEvents,
                              UnreviewedOf(username)))
    /\ budget' = Spend("ops")
    /\ last' = IF pending = <<>>
               THEN Event("hideReq", username, NoKey, FALSE, "hide",
                          UnreviewedOf(username), 0, Snapshot)
               ELSE IF last.chain = "unhide" /\ last.account = username
                       /\ Len(pending) = 1
               THEN Event("hideReq", username, NoKey, FALSE, "both",
                          {}, 0, last.start)
               ELSE Event("hideReq", username, NoKey, FALSE, "", {}, 0, NoSnapshot)
    /\ UNCHANGED <<scanVars, reviewedEvents, rejectedEvents, disk,
                   unreviewedResult>>

\* The loop of tray.ts:961-967 over the account's images.
RECURSIVE RejectUnreviewed(_, _, _)
RejectUnreviewed(images, reviewed, rejected) ==
    IF images = <<>> THEN rejected
    ELSE LET key == Head(images)
         IN RejectUnreviewed(Tail(images), reviewed,
                IF ~Includes(reviewed, key) /\ ~Includes(rejected, key)
                THEN Append(rejected, key)
                ELSE rejected)

\* How a completed hide or unhide continues the chain.
ChainAfter(op, username) ==
    IF last.account # username THEN ""
    ELSE IF op = "hide" /\ last.chain = "hide" THEN "hide-done"
    ELSE IF op = "unhide" /\ last.chain = "hide-done-unhide" THEN "serial-complete"
    ELSE IF last.chain = "both" THEN "both-one-done"
    ELSE IF last.chain = "both-one-done" THEN "concurrent-complete"
    ELSE ""

hideAccountThen(i) ==
    /\ i \in DOMAIN pending
    /\ pending[i].op = "hide"
    /\ LET p == pending[i]
           images == scanAccountImages(disk)[p.username]
           rejected == RejectUnreviewed(images, p.reviewedSnap, p.rejectedSnap)
           rejectedCount == Len(rejected) - Len(p.rejectedSnap)
       IN /\ rejectedEvents' = rejected
          /\ last' = Event("hideDone", p.username, NoKey, FALSE,
                           ChainAfter("hide", p.username), p.unrevAtRequest,
                           rejectedCount, last.start)
    /\ pending' = RemoveAt(pending, i)
    /\ UNCHANGED <<scanVars, reviewedEvents, hiddenAccounts, disk,
                   unreviewedResult, budget>>

\* ------------------------------------------------------------------------
\* unhide-account (tray.ts:973-984)
\* ------------------------------------------------------------------------
unhideAccountHandler(username) ==
    /\ CanInvoke
    /\ hiddenAccounts' = SelectSeq(hiddenAccounts, LAMBDA a : a # username)
    /\ pending' = Append(pending,
                         Call("unhide", username, <<>>, rejectedEvents, {}))
    /\ budget' = Spend("ops")
    /\ last' = IF pending = <<>> /\ last.chain = "hide-done"
                  /\ last.account = username
               THEN Event("unhideReq", username, NoKey, FALSE,
                          "hide-done-unhide", last.unrev, 0, last.start)
               ELSE IF pending = <<>>
               THEN Event("unhideReq", username, NoKey, FALSE, "unhide",
                          {}, 0, Snapshot)
               ELSE IF last.chain = "hide" /\ last.account = username
                       /\ Len(pending) = 1
               THEN Event("unhideReq", username, NoKey, FALSE, "both",
                          {}, 0, last.start)
               ELSE Event("unhideReq", username, NoKey, FALSE, "", {}, 0,
                          NoSnapshot)
    /\ UNCHANGED <<scanVars, reviewedEvents, rejectedEvents, disk,
                   unreviewedResult>>

unhideAccountThenKeepsOnlyUserKeys(i) ==
    /\ i \in DOMAIN pending
    /\ pending[i].op = "unhide"
    /\ LET p == pending[i]
           images == scanAccountImages(disk)[p.username]
           userKeys == Range(images)
       IN /\ rejectedEvents' =
                 SelectSeq(p.rejectedSnap, LAMBDA k : k \in userKeys)
          /\ last' = Event("unhideDone", p.username, NoKey, FALSE,
                           ChainAfter("unhide", p.username), last.unrev, 0,
                           last.start)
    /\ pending' = RemoveAt(pending, i)
    /\ UNCHANGED <<scanVars, reviewedEvents, hiddenAccounts, disk,
                   unreviewedResult, budget>>

unhideAccountThen(i) ==
    /\ i \in DOMAIN pending
    /\ pending[i].op = "unhide"
    /\ LET p == pending[i]
           images == scanAccountImages(disk)[p.username]
           userKeys == Range(images)
       IN /\ rejectedEvents' =
                 SelectSeq(p.rejectedSnap, LAMBDA k : k \notin userKeys)
          /\ last' = Event("unhideDone", p.username, NoKey, FALSE,
                           ChainAfter("unhide", p.username), last.unrev, 0,
                           last.start)
    /\ pending' = RemoveAt(pending, i)
    /\ UNCHANGED <<scanVars, reviewedEvents, hiddenAccounts, disk,
                   unreviewedResult, budget>>

\* ------------------------------------------------------------------------
\* toggle-account of the account viewer (tray.ts:1524-1531)
\* ------------------------------------------------------------------------
toggleAccountHandler(username, hidden) ==
    /\ CanInvoke
    /\ hiddenAccounts' =
          IF hidden /\ ~Includes(hiddenAccounts, username)
          THEN Append(hiddenAccounts, username)
          ELSE IF ~hidden
               THEN SelectSeq(hiddenAccounts, LAMBDA a : a # username)
               ELSE hiddenAccounts
    /\ budget' = Spend("ops")
    /\ last' = Event("toggle", username, NoKey, hidden,
                     IF hidden /\ ~Includes(hiddenAccounts, username)
                     THEN "now-hidden" ELSE "", {}, 0, NoSnapshot)
    /\ UNCHANGED <<scanVars, reviewedEvents, rejectedEvents, disk, pending,
                   unreviewedResult>>

\* ------------------------------------------------------------------------
\* get-unreviewed-events (tray.ts:876-903)
\* ------------------------------------------------------------------------
\* The comparator of tray.ts:901: negative when a sorts before b.
\* b.date.localeCompare(a.date) || b.key.localeCompare(a.key)
SortsBeforeOldestFirst(a, b) ==
    \/ a.date < b.date
    \/ a.date = b.date /\ DirBefore(a, b)

SortsBefore(a, b) ==
    \/ b.date < a.date
    \/ b.date = a.date /\ DirBefore(b, a)

RECURSIVE InsertSorted(_, _)
InsertSorted(sorted, e) ==
    IF sorted = <<>> THEN <<e>>
    ELSE IF SortsBefore(e, Head(sorted)) THEN <<e>> \o sorted
         ELSE <<Head(sorted)>> \o InsertSorted(Tail(sorted), e)

RECURSIVE SortEvents(_)
SortEvents(events) ==
    IF events = <<>> THEN <<>>
    ELSE InsertSorted(SortEvents(SubSeq(events, 1, Len(events) - 1)),
                      events[Len(events)])

RECURSIVE CollectUnreviewedShowsHidden(_, _)
CollectUnreviewedShowsHidden(accountSeq, files) ==
    IF accountSeq = <<>> THEN <<>>
    ELSE LET username == Head(accountSeq)
             images == scanAccountImages(files)[username]
             kept == SelectSeq(images,
                            LAMBDA k : ~(Includes(reviewedEvents, k)
                                         \/ Includes(rejectedEvents, k)))
         IN kept \o CollectUnreviewedShowsHidden(Tail(accountSeq), files)

\* The nested loops of tray.ts:885-898 over Object.entries(accounts).
RECURSIVE CollectUnreviewed(_, _)
CollectUnreviewed(accountSeq, files) ==
    IF accountSeq = <<>> THEN <<>>
    ELSE LET username == Head(accountSeq)
             images == scanAccountImages(files)[username]
             kept == IF Includes(hiddenAccounts, username) THEN <<>>
                     ELSE SelectSeq(images,
                            LAMBDA k : ~(Includes(reviewedEvents, k)
                                         \/ Includes(rejectedEvents, k)))
         IN kept \o CollectUnreviewed(Tail(accountSeq), files)

getUnreviewedHandler ==
    /\ CanInvoke
    /\ pending' = Append(pending, Call("unreviewed", "", <<>>, <<>>, {}))
    /\ budget' = Spend("ops")
    /\ UNCHANGED <<scanVars, ledger, disk, unreviewedResult, last>>

getUnreviewedThen(i) ==
    /\ i \in DOMAIN pending
    /\ pending[i].op = "unreviewed"
    /\ unreviewedResult' =
          [returned |-> TRUE, files |-> disk,
           events |-> SortEvents(CollectUnreviewed(<<"alice", "alice2">>, disk))]
    /\ pending' = RemoveAt(pending, i)
    /\ UNCHANGED <<scanVars, ledger, disk, budget, last>>

\* ------------------------------------------------------------------------
\* The scan orchestrator (tray.ts:496-647, 1699-1720)
\* ------------------------------------------------------------------------
IdleTimes == {0, 1, 2}
Triggers == {"interval", "resume", "unlock-screen"}

Invocation(pc, revBefore, rejBefore, knownBefore, run, stories, events) ==
    [pc |-> pc,
     reviewedBefore |-> revBefore, rejectedBefore |-> rejBefore,
     knownKeysBefore |-> knownBefore,
     run |-> run, storyCount |-> stories, eventCount |-> events,
     by |-> "", idleTime |-> 0, startedAt |-> 0]
NotInvoked == Invocation("idle", {}, {}, {}, "none", 0, 0)

\* handleScan up to its first await (tray.ts:522-540).  The early returns
\* (guard set, no API key) leave every variable as it is.  History fields of
\* the invocation: by ("menu" for the menu item, "auto" for tryAutoScan) and
\* the idle time tryAutoScan read, both kept until the traversal is started,
\* and startedAt, the time at which it was started.
handleScanEnter(by, idleTime) ==
    /\ CanInvoke
    /\ budget.scans < MaxScans
    /\ ~isScanning
    /\ store.openrouterApiKey # ""
    /\ scan' = [scan EXCEPT ![budget.scans + 1] =
                   [Invocation("snapshot", Range(reviewedEvents),
                               Range(rejectedEvents), {}, "none", 0, 0)
                       EXCEPT !.by = by, !.idleTime = idleTime]]
    /\ budget' = Spend("scans")
    /\ UNCHANGED <<isScanning, reviewHistory, store, sessionExists, scraper, twin, capture, request, now,
                   ledger, disk, pending, unreviewedResult, last>>

\* "Scan Stories Now": the menu item is enabled when the menu was built with
\* !isScanning && hasSession (tray.ts:447-452).
handleScan ==
    /\ sessionExists
    /\ handleScanEnter("menu", 0)

\* tray.ts:1699-1712
tryAutoScan(trigger, idleTime) ==
    /\ ~isScanning
    /\ store.autoScanEnabled
    /\ sessionExists
    /\ store.openrouterApiKey # ""
    /\ ~(idleTime > IDLE_THRESHOLD_SECONDS)
    /\ ~(now - store.lastAutoScanTime < AUTO_SCAN_MIN_GAP_MS)
    /\ trigger \in Triggers
    /\ handleScanEnter("auto", idleTime)

\* handleScan from the first scanAccountImages() result to the call of
\* runScraper (tray.ts:540-569); runScraper runs up to its first await
\* (scraper: session check, then chromium.launch).
handleScanGuard(i) ==
    /\ scan[i].pc = "snapshot"
    /\ isScanning' = TRUE
    /\ store' = [store EXCEPT !.lastError = ""]
    /\ scan' = [scan EXCEPT ![i] =
                   [@ EXCEPT !.pc = "scraping", !.knownKeysBefore = disk,
                             !.run = IF sessionExists THEN "running"
                                     ELSE "nosession",
                             !.by = "", !.idleTime = 0, !.startedAt = now]]
    /\ UNCHANGED <<reviewHistory, sessionExists, scraper, twin, capture, request, now, ledger, disk, pending,
                   unreviewedResult, budget, last>>

\* A statement of tray.ts:560-562 throws (store write, tray title, menu
\* rebuild): the guard is set and the try block is never entered.
handleScanGuardThrows(i, wroteLastError) ==
    /\ scan[i].pc = "snapshot"
    /\ isScanning' = TRUE
    /\ store' = IF wroteLastError THEN [store EXCEPT !.lastError = ""] ELSE store
    /\ scan' = [scan EXCEPT ![i] =
                   [@ EXCEPT !.pc = "threw", !.knownKeysBefore = disk,
                             !.by = "", !.idleTime = 0]]
    /\ UNCHANGED <<reviewHistory, sessionExists, scraper, twin, capture, request, now, ledger, disk, pending,
                   unreviewedResult, budget, last>>

\* One story of the traversal loop (scraper loop body): counted, classified,
\* and on a positive verdict renamed to events/<date>/<account>_<time>.png.
runScraperStory(i, isEvent, key) ==
    /\ scan[i].pc = "scraping"
    /\ scan[i].run = "running"
    /\ budget.stories < MaxStories
    /\ scan' = [scan EXCEPT ![i] =
                   [@ EXCEPT !.storyCount = @ + 1,
                             !.eventCount = IF isEvent THEN @ + 1 ELSE @]]
    /\ disk' = IF isEvent THEN disk \cup {key} ELSE disk
    /\ budget' = Spend("stories")
    /\ UNCHANGED <<isScanning, reviewHistory, store, sessionExists, scraper, twin, capture, request, now,
                   ledger, pending, unreviewedResult, last>>

\* finally of handleScan (tray.ts:641-646)
Finally(i, pc) ==
    /\ isScanning' = FALSE
    /\ scan' = [scan EXCEPT ![i] = [@ EXCEPT !.pc = pc, !.run = "ended"]]

handleScanResultErrorStampsRun(i) ==
    /\ scan[i].pc = "scraping"
    /\ scan[i].run \in {"running", "nosession"}
    /\ store' = [store EXCEPT !.lastError = "result.error",
                              !.lastStoryCount = scan[i].storyCount,
                              !.lastAutoScanTime = now]
    /\ Finally(i, "returned")
    /\ UNCHANGED <<reviewHistory, sessionExists, scraper, twin, capture, request, now, ledger, disk, pending,
                   unreviewedResult, budget, last>>

\* runScraper resolves with an error (no session, or an exception inside its
\* try block); handleScan takes the branch of tray.ts:571-577.
handleScanResultError(i) ==
    /\ scan[i].pc = "scraping"
    /\ scan[i].run \in {"running", "nosession"}
    /\ store' = [store EXCEPT !.lastError = "result.error"]
    /\ Finally(i, "returned")
    /\ UNCHANGED <<reviewHistory, sessionExists, scraper, twin, capture, request, now, ledger, disk, pending,
                   unreviewedResult, budget, last>>

\* runScraper rejects (chromium.launch / newContext / newPage are outside its
\* try block); handleScan's catch (tray.ts:634-640).
handleScanCatch(i) ==
    /\ scan[i].pc = "scraping"
    /\ scan[i].run = "running"
    /\ scan[i].storyCount = 0
    /\ store' = [store EXCEPT !.lastError = "err"]
    /\ Finally(i, "returned")
    /\ UNCHANGED <<reviewHistory, sessionExists, scraper, twin, capture, request, now, ledger, disk, pending,
                   unreviewedResult, budget, last>>

\* runScraper resolves without error; tray.ts:578-591 up to the await.
handleScanResultOk(i) ==
    /\ scan[i].pc = "scraping"
    /\ scan[i].run = "running"
    /\ store' = [store EXCEPT !.lastScanTime = now,
                              !.lastEventCount = scan[i].eventCount,
                              !.lastStoryCount = scan[i].storyCount,
                              !.lastError = "",
                              !.lastAutoScanTime = now]
    /\ scan' = [scan EXCEPT ![i] = [@ EXCEPT !.pc = "listing", !.run = "ended"]]
    /\ UNCHANGED <<isScanning, reviewHistory, sessionExists, scraper, twin, capture, request, now, ledger, disk,
                   pending, unreviewedResult, budget, last>>

\* saveReviewHistory (tray.ts:496-520): the history after the call.
RECURSIVE Unique(_)
Unique(s) ==
    IF s = <<>> THEN <<>>
    ELSE LET rest == Unique(SubSeq(s, 1, Len(s) - 1))
         IN IF Includes(rest, s[Len(s)]) THEN rest ELSE Append(rest, s[Len(s)])

AccountsOf(keys) == Unique([n \in DOMAIN keys |-> keys[n].account])

saveReviewHistorySwapsCounts(history, reviewedKeys, rejectedKeys) ==
    IF Len(reviewedKeys) = 0 /\ Len(rejectedKeys) = 0 THEN history
    ELSE Append(history,
                [timestamp |-> now,
                 accounts |-> AccountsOf(reviewedKeys \o rejectedKeys),
                 approvedCount |-> Len(rejectedKeys),
                 rejectedCount |-> Len(reviewedKeys)])

saveReviewHistoryAlways(history, reviewedKeys, rejectedKeys) ==
    Append(history,
           [timestamp |-> now,
            accounts |-> AccountsOf(reviewedKeys \o rejectedKeys),
            approvedCount |-> Len(reviewedKeys),
            rejectedCount |-> Len(rejectedKeys)])

saveReviewHistoryOverwrites(history, reviewedKeys, rejectedKeys) ==
    IF Len(reviewedKeys) = 0 /\ Len(rejectedKeys) = 0 THEN history
    ELSE <<[timestamp |-> now,
            accounts |-> AccountsOf(reviewedKeys \o rejectedKeys),
            approvedCount |-> Len(reviewedKeys),
            rejectedCount |-> Len(rejectedKeys)]>>

saveReviewHistory(history, reviewedKeys, rejectedKeys) ==
    IF Len(reviewedKeys) = 0 /\ Len(rejectedKeys) = 0 THEN history
    ELSE Append(history,
                [timestamp |-> now,
                 accounts |-> AccountsOf(reviewedKeys \o rejectedKeys),
                 approvedCount |-> Len(reviewedKeys),
                 rejectedCount |-> Len(rejectedKeys)])

NewEventCountReadsLedger(i, files) ==
    Cardinality({key \in files : /\ key \notin scan[i].knownKeysBefore
                                 /\ ~Includes(reviewedEvents, key)
                                 /\ ~Includes(rejectedEvents, key)})

NewEventCountIgnoresKnown(i, files) ==
    Cardinality({key \in files : /\ key \notin scan[i].reviewedBefore
                                 /\ key \notin scan[i].rejectedBefore})

\* tray.ts:590-600
NewEventCount(i, files) ==
    Cardinality({key \in files : /\ key \notin scan[i].knownKeysBefore
                                 /\ key \notin scan[i].reviewedBefore
                                 /\ key \notin scan[i].rejectedBefore})

handleScanFinishAlwaysRotates(i) ==
    /\ scan[i].pc = "listing"
    /\ reviewHistory' =
           saveReviewHistory(reviewHistory, reviewedEvents, rejectedEvents)
    /\ reviewedEvents' = <<>>
    /\ rejectedEvents' = <<>>
    /\ last' = Event("rotate", "", NoKey, FALSE, "", {},
                     NewEventCount(i, disk), NoSnapshot)
    /\ Finally(i, "returned")
    /\ UNCHANGED <<store, sessionExists, scraper, twin, capture, request, now, hiddenAccounts, disk,
                   pending, unreviewedResult, budget>>

\* handleScan after the second scanAccountImages() (tray.ts:591-646)
handleScanFinish(i) ==
    /\ scan[i].pc = "listing"
    /\ IF NewEventCount(i, disk) > 0
       THEN /\ reviewHistory' =
                  saveReviewHistory(reviewHistory, reviewedEvents, rejectedEvents)
            /\ reviewedEvents' = <<>>
            /\ rejectedEvents' = <<>>
            /\ last' = Event("rotate", "", NoKey, FALSE, "", {},
                             NewEventCount(i, disk), NoSnapshot)
       ELSE UNCHANGED <<reviewHistory, reviewedEvents, rejectedEvents, last>>
    /\ Finally(i, "returned")
    /\ UNCHANGED <<store, sessionExists, scraper, twin, capture, request, now, hiddenAccounts, disk, pending,
                   unreviewedResult, budget>>

\* ------------------------------------------------------------------------
\* runScraper, step by step (part_004:82-228).  Every action is the code
\* up to the next await; an awaited call either resolves or rejects (ok).
\* Each step is written for a call s that becomes t, so that two calls can
\* be run side by side.  Under ScraperSpec one call runs alone and the tray
\* state stays as it is.
\* ------------------------------------------------------------------------
callerVars == <<isScanning, reviewedEvents, rejectedEvents, hiddenAccounts,
                reviewHistory, store, disk, sessionExists, now, scan,
                pending, unreviewedResult, budget, last, capture, request>>
trayVars == <<callerVars, twin>>

NoResult == [kind |-> "none", storyCount |-> 0, eventCount |-> 0]

\* getUsername (part_004:16-42).  A string is the sequence of its
\* characters.  What a locator call gives: it throws (no element within the
\* timeout), or resolves to null, or to a string.
NoValue == [kind |-> "none", value |-> <<>>]
Thrown == [kind |-> "throws", value |-> <<>>]
Null == [kind |-> "null", value |-> <<>>]
Str(chars) == [kind |-> "string", value |-> chars]
Hrefs == {Thrown, Null, Str(<<"/">>), Str(<<"/", "a", "/">>)}
Texts == {Thrown, Null, Str(<<>>), Str(<<" ">>), Str(<<"a", " ">>), Str([n \in 1..UsernameTextLimit |-> "x"])}

\* href.replace(/\//g, "")
StripSlashes(chars) == SelectSeq(chars, LAMBDA c : c # "/")

\* text.trim()
RECURSIVE TrimStart(_)
TrimStart(chars) ==
    IF chars # <<>> /\ Head(chars) = " " THEN TrimStart(Tail(chars)) ELSE chars

RECURSIVE TrimEnd(_)
TrimEnd(chars) ==
    IF chars # <<>> /\ chars[Len(chars)] = " "
    THEN TrimEnd(SubSeq(chars, 1, Len(chars) - 1)) ELSE chars

Trim(chars) == TrimEnd(TrimStart(chars))

\* "unknown_" + Date.now(): the prefix and the digits of the clock.
Placeholder == <<"unknown_", "now">>

\* part_004:28-39: the second locator, tried in the catch of the first.
SecondaryUsername(text) ==
    IF text.kind = "string" /\ Len(text.value) > 0
                           /\ Len(text.value) < UsernameTextLimit
    THEN Trim(text.value)
    ELSE Placeholder

\* part_004:16-42
getUsername(href, text) ==
    IF href.kind = "throws" THEN SecondaryUsername(text)
    ELSE IF href.kind = "string" /\ Len(StripSlashes(href.value)) > 0
         THEN StripSlashes(href.value)
         ELSE Placeholder

ScanResult(kind, storyCount, eventCount) ==
    [kind |-> kind, storyCount |-> storyCount, eventCount |-> eventCount]

\* browser: "none" | "open" | "closed"; temp: the temporary capture file
\* exists; lastUrl: "" or the location of the previous iteration.
\* History fields: thrown (where an exception left the try block, with the
\* counters at that moment), shots (frames captured), saved (captures
\* renamed into the events directory), itemFailures, skips.
\* dayDir: ensureDayDir() has made the day directory; log: the last progress
\* line passed to onProgress ("" before the first).  frame: whose frame the
\* temporary file holds ("" when there is no file, "own" for a frame of this
\* call, "other" for a frame of another call); judged, verdict: the frame the
\* classifier read in the current iteration and its answer.  href, text:
\* what the two locators of getUsername gave (kept up to the capture);
\* username: what getUsername returned (kept while the iteration uses it,
\* up to the path of the saved capture, part_004:185).  answer: what the
\* model call of the classifier gave (kept up to the next step).
\* scanProgress: the caller's progress record (tray.ts:298-305, reset at
\* tray.ts:549-557) as the onProgress callback leaves it.
NotCalled ==
    [pc |-> "idle", browser |-> "none", temp |-> FALSE,
     dayDir |-> FALSE, log |-> "", frame |-> "", judged |-> "", verdict |-> "",
     href |-> NoValue, text |-> NoValue, username |-> <<>>,
     answer |-> NoValue,
     scanProgress |-> [currentStory |-> 0, eventCount |-> 0],
     storyCount |-> 0, eventCount |-> 0, stuckCount |-> 0, lastUrl |-> "",
     iter |-> 0, result |-> NoResult,
     thrown |-> [at |-> "", storyCount |-> 0, eventCount |-> 0],
     shots |-> 0, saved |-> 0, itemFailures |-> 0, skips |-> 0]

\* A progress line: its kind, the numbers and the handle written into it.
ProgressLine(kind, n, m, user) == [kind |-> kind, n |-> n, m |-> m, user |-> user]

\* parseProgressMessage (tray.ts:316-361), called by the onProgress callback
\* (tray.ts:565-568) for every line.  /^Story (\d+): @(.+)$/ needs at least
\* one character after the @.
parseProgressMessage(progress, msg) ==
    IF msg.kind = "Story" /\ Len(msg.user) > 0
    THEN [progress EXCEPT !.currentStory = msg.n]
    ELSE IF msg.kind = "EVENT DETECTED"
    THEN [progress EXCEPT !.eventCount = @ + 1]
    ELSE IF msg.kind = "Done"
    THEN [currentStory |-> msg.n, eventCount |-> msg.m]
    ELSE progress

\* An awaited call inside the try block rejects: control goes to the catch.
Throws(s) ==
    [s EXCEPT !.pc = "catch",
              !.thrown = [at |-> s.pc, storyCount |-> s.storyCount,
                          eventCount |-> s.eventCount]]

runScraperStepRefusesHidden(s, t, hidden) ==
    /\ s.pc = "idle"
    /\ t = IF ~sessionExists
           THEN [s EXCEPT !.pc = "done", !.result = ScanResult("error", 0, 0)]
           ELSE IF hidden # <<>>
                THEN [s EXCEPT !.pc = "done", !.log = "Starting",
                               !.result = ScanResult("ok", 0, 0)]
                ELSE [s EXCEPT !.pc = "launch", !.log = "Starting"]

\* part_004:82-97: the session check, then the first progress line.  The
\* caller passes (onProgress, hiddenAccounts) (tray.ts:565-569); the function
\* declares onProgress only, so hidden is never read.
runScraperStep(s, t, hidden) ==
    /\ s.pc = "idle"
    /\ t = IF ~sessionExists
                  THEN [s EXCEPT !.pc = "done",
                                       !.result = ScanResult("error", 0, 0)]
                  ELSE [s EXCEPT !.pc = "launch", !.log = "Starting"]

runScraperLogsFirst ==
    /\ scraper.pc = "idle"
    /\ scraper' = IF ~sessionExists
                  THEN [scraper EXCEPT !.pc = "done", !.log = "Starting",
                                       !.result = ScanResult("error", 0, 0)]
                  ELSE [scraper EXCEPT !.pc = "launch", !.log = "Starting"]
    /\ UNCHANGED trayVars

runScraper ==
    /\ runScraperStep(scraper, scraper', hiddenAccounts)
    /\ UNCHANGED trayVars

\* part_004:99-102, outside the try block: a rejection leaves runScraper.
chromiumLaunchStep(s, t, ok) ==
    /\ s.pc = "launch"
    /\ t = IF ok
                  THEN [s EXCEPT !.pc = "context", !.browser = "open"]
                  ELSE [s EXCEPT !.pc = "done",
                                       !.result = ScanResult("threw", 0, 0)]

chromiumLaunch(ok) ==
    /\ chromiumLaunchStep(scraper, scraper', ok)
    /\ UNCHANGED trayVars

\* part_004:103-110: browser.newContext and context.newPage, outside the
\* try block as well.
newContextAndPageStep(s, t, ok) ==
    /\ s.pc = "context"
    /\ t = IF ok
                  THEN [s EXCEPT !.pc = "goto", !.log = "Navigating"]
                  ELSE [s EXCEPT !.pc = "done",
                                       !.result = ScanResult("threw", 0, 0)]

newContextAndPage(ok) ==
    /\ newContextAndPageStep(scraper, scraper', ok)
    /\ UNCHANGED trayVars

\* part_004:114-119
pageGotoStep(s, t, ok) ==
    /\ s.pc = "goto"
    /\ t = IF ok THEN [s EXCEPT !.pc = "find", !.log = "Looking"]
                  ELSE Throws(s)

pageGoto(ok) ==
    /\ pageGotoStep(scraper, scraper', ok)
    /\ UNCHANGED trayVars

\* part_004:121-128: no story button ends the run after browser.close().
storyButtonCountStep(s, t, count, ok) ==
    /\ s.pc = "find"
    /\ t =
          IF ~ok THEN Throws(s)
          ELSE IF count = 0
               THEN [s EXCEPT !.pc = "finally", !.browser = "closed",
                                    !.log = "No stories",
                                    !.result = ScanResult("ok", 0, 0)]
               ELSE [s EXCEPT !.pc = "open"]

storyButtonCount(count, ok) ==
    /\ storyButtonCountStep(scraper, scraper', count, ok)
    /\ UNCHANGED trayVars

\* part_004:130-137: the story surface is opened, the day directory made.
storyButtonClickStep(s, t, ok) ==
    /\ s.pc = "open"
    /\ t = IF ok THEN [s EXCEPT !.pc = "head", !.dayDir = TRUE,
                                             !.log = "Saving"]
                  ELSE Throws(s)

storyButtonClick(ok) ==
    /\ storyButtonClickStep(scraper, scraper', ok)
    /\ UNCHANGED trayVars

\* part_004:139-157: the loop condition, the stuck detection and the story
\* counter.  sameUrl: the location is the one the previous iteration
\* remembered.
isStoryViewStep(s, t, inStory, sameUrl, ok) ==
    /\ s.pc = "head"
    /\ inStory => s.iter < MaxIter
    /\ sameUrl => s.lastUrl # ""
    /\ t =
          IF ~inStory
          THEN [s EXCEPT !.pc = "finally", !.log = "Done",
                         !.scanProgress =
                             parseProgressMessage(@,
                                 ProgressLine("Done", s.storyCount,
                                              s.eventCount, <<>>)),
                         !.result = ScanResult("ok", s.storyCount,
                                               s.eventCount)]
          ELSE IF sameUrl /\ s.stuckCount + 1 >= MAX_STUCK
          THEN LET skipped == [s EXCEPT !.iter = @ + 1, !.stuckCount = 0,
                                              !.lastUrl = "", !.skips = @ + 1,
                                              !.log = "Stuck"]
               IN IF ok THEN skipped ELSE Throws(skipped)
          ELSE [s EXCEPT !.pc = "user", !.iter = @ + 1,
                               !.judged = "", !.verdict = "",
                               !.stuckCount = IF sameUrl THEN @ + 1 ELSE 0,
                               !.lastUrl = "url",
                               !.storyCount = @ + 1]

isStoryViewPassesOverUnchanged(inStory, sameUrl, ok) ==
    /\ scraper.pc = "head"
    /\ inStory => scraper.iter < MaxIter
    /\ sameUrl => scraper.lastUrl # ""
    /\ scraper' =
          IF ~inStory
          THEN [scraper EXCEPT !.pc = "finally", !.log = "Done",
                               !.scanProgress =
                                   parseProgressMessage(@,
                                       ProgressLine("Done", scraper.storyCount,
                                                    scraper.eventCount, <<>>)),
                               !.result = ScanResult("ok", scraper.storyCount,
                                                     scraper.eventCount)]
          ELSE IF sameUrl /\ scraper.stuckCount + 1 >= MAX_STUCK
          THEN LET skipped == [scraper EXCEPT !.iter = @ + 1, !.stuckCount = 0,
                                              !.lastUrl = "", !.skips = @ + 1,
                                              !.log = "Stuck"]
               IN IF ok THEN skipped ELSE Throws(skipped)
          ELSE IF sameUrl
          THEN [scraper EXCEPT !.pc = "dwell", !.iter = @ + 1,
                               !.stuckCount = @ + 1]
          ELSE [scraper EXCEPT !.pc = "user", !.iter = @ + 1,
                               !.judged = "", !.verdict = "",
                               !.stuckCount = 0,
                               !.lastUrl = "url",
                               !.storyCount = @ + 1]
    /\ UNCHANGED trayVars

isStoryViewSkipKeepsCount(inStory, sameUrl, ok) ==
    /\ scraper.pc = "head"
    /\ inStory => scraper.iter < MaxIter
    /\ sameUrl => scraper.lastUrl # ""
    /\ scraper' =
          IF ~inStory
          THEN [scraper EXCEPT !.pc = "finally", !.log = "Done",
                               !.scanProgress =
                                   parseProgressMessage(@,
                                       ProgressLine("Done", scraper.storyCount,
                                                    scraper.eventCount, <<>>)),
                               !.result = ScanResult("ok", scraper.storyCount,
                                                     scraper.eventCount)]
          ELSE IF sameUrl /\ scraper.stuckCount + 1 >= MAX_STUCK
          THEN LET skipped == [scraper EXCEPT !.iter = @ + 1, !.stuckCount = @ + 1,
                                              !.skips = @ + 1,
                                              !.log = "Stuck"]
               IN IF ok THEN skipped ELSE Throws(skipped)
          ELSE [scraper EXCEPT !.pc = "user", !.iter = @ + 1,
                               !.judged = "", !.verdict = "",
                               !.stuckCount = IF sameUrl THEN @ + 1 ELSE 0,
                               !.lastUrl = "url",
                               !.storyCount = @ + 1]
    /\ UNCHANGED trayVars

isStoryView(inStory, sameUrl, ok) ==
    /\ isStoryViewStep(scraper, scraper', inStory, sameUrl, ok)
    /\ UNCHANGED trayVars

\* part_004:158-159: the account handle of the story, then its progress
\* line.  getUsername catches what its locators throw.
storyUsernameStep(s, t, href, text) ==
    /\ s.pc = "user"
    /\ t = [s EXCEPT !.pc = "shot", !.log = "Story",
                     !.href = href, !.text = text,
                     !.username = getUsername(href, text),
                     !.scanProgress =
                         parseProgressMessage(@,
                             ProgressLine("Story", s.storyCount, 0,
                                          getUsername(href, text)))]

storyUsername(href, text) ==
    /\ storyUsernameStep(scraper, scraper', href, text)
    /\ UNCHANGED trayVars

\* part_004:161-179: the frame is written to the temporary capture file.
\* A rejected screenshot may or may not have left a file behind.
pageScreenshotStep(s, t, ok, written) ==
    /\ s.pc = "shot"
    /\ ok => written
    /\ t = IF ok
                  THEN [s EXCEPT !.pc = "classify", !.temp = TRUE,
                                       !.frame = "own", !.shots = @ + 1,
                                       !.href = NoValue, !.text = NoValue]
                  ELSE Throws([s EXCEPT !.temp = @ \/ written,
                                              !.frame = IF written THEN "own"
                                                        ELSE @,
                                              !.href = NoValue,
                                              !.text = NoValue,
                                              !.username = <<>>])

pageScreenshot(ok, written) ==
    /\ pageScreenshotStep(scraper, scraper', ok, written)
    /\ UNCHANGED trayVars

\* The answers of the model (part_003:36-50): generateText rejects, or
\* resolves with a text.
Answers ==
    {Thrown, Str(<<>>), Str(<<" ">>), Str(<<"N", "O">>), Str(<<"Y", "E", "S">>),
     Str(<<" ", "y", "e", "s", " ">>), Str(<<"Y", "e", "s", ".">>),
     Str(<<"N", "O", " ", "Y", "E", "S">>), Str(<<"y", "e", "s", "n", "o">>),
     Str(<<"Y", "e", "s", "t", "e", "r", "d", "a", "y">>)}

\* String.prototype.toUpperCase on the letters the answers are made of.
UpperCase ==
    [c \in {"a", "d", "e", "n", "o", "r", "s", "t", "y"} |->
        CASE c = "a" -> "A" [] c = "d" -> "D" [] c = "e" -> "E" [] c = "n" -> "N"
          [] c = "o" -> "O" [] c = "r" -> "R" [] c = "s" -> "S" [] c = "t" -> "T"
          [] c = "y" -> "Y"]
toUpperCase(chars) ==
    [n \in DOMAIN chars |-> IF chars[n] \in DOMAIN UpperCase
                            THEN UpperCase[chars[n]] ELSE chars[n]]

\* String.prototype.startsWith
startsWith(chars, prefix) ==
    /\ Len(chars) >= Len(prefix)
    /\ SubSeq(chars, 1, Len(prefix)) = prefix

\* part_003:52: text.trim().toUpperCase().startsWith("YES")
AnswerVerdict(text) ==
    IF startsWith(toUpperCase(Trim(text)), <<"Y", "E", "S">>) THEN "yes" ELSE "no"

\* What the call of isEventPromotion gives for an answer of the model.
VerdictOf(answer) ==
    IF answer.kind = "throws" THEN "throws" ELSE AnswerVerdict(answer.value)

\* part_004:181-196: the classifier call, which reads the temporary file
\* (sharp(imagePath), part_003:28-31) and throws when there is none; a
\* negative verdict unlinks the frame, and the inner catch unlinks it when
\* the call throws.
isEventPromotionStep(s, t, answer) ==
    /\ s.pc = "classify"
    /\ VerdictOf(answer) # "throws" => s.temp
    /\ t =
          IF VerdictOf(answer) = "yes"
          THEN [s EXCEPT !.pc = "save", !.judged = s.frame,
                         !.verdict = "yes", !.answer = answer]
          ELSE IF VerdictOf(answer) = "no"
               THEN [s EXCEPT !.pc = "dwell", !.temp = FALSE,
                              !.frame = "", !.judged = s.frame,
                              !.verdict = "no", !.username = <<>>,
                              !.answer = answer,
                              !.log = "Not an event"]
               ELSE [s EXCEPT !.pc = "dwell", !.temp = FALSE,
                              !.frame = "", !.verdict = "throws",
                              !.username = <<>>,
                              !.answer = answer,
                              !.log = "Error checking story",
                              !.itemFailures = @ + 1]

isEventPromotionThrowEndsRun(answer) ==
    /\ scraper.pc = "classify"
    /\ VerdictOf(answer) # "throws" => scraper.temp
    /\ scraper' =
          IF VerdictOf(answer) = "yes"
          THEN [scraper EXCEPT !.pc = "save", !.judged = scraper.frame,
                               !.verdict = "yes", !.answer = answer]
          ELSE IF VerdictOf(answer) = "no"
               THEN [scraper EXCEPT !.pc = "dwell", !.temp = FALSE,
                                    !.frame = "", !.judged = scraper.frame,
                                    !.verdict = "no", !.username = <<>>,
                                    !.answer = answer,
                                    !.log = "Not an event"]
               ELSE Throws([scraper EXCEPT !.itemFailures = @ + 1,
                                           !.verdict = "throws",
                                           !.username = <<>>])
    /\ UNCHANGED trayVars

isEventPromotion(answer) ==
    /\ isEventPromotionStep(scraper, scraper', answer)
    /\ UNCHANGED trayVars

\* part_004:184-188, 193-196: rename of the frame into the day directory;
\* the inner catch unlinks the frame when rename throws.
renameCaptureStep(s, t, ok) ==
    /\ s.pc = "save"
    /\ ok => s.temp
    /\ t =
          IF ok
          THEN [s EXCEPT !.pc = "dwell", !.temp = FALSE, !.frame = "",
                               !.log = "EVENT DETECTED", !.username = <<>>,
                               !.answer = NoValue,
                               !.scanProgress =
                                   parseProgressMessage(@,
                                       ProgressLine("EVENT DETECTED", 0, 0, <<>>)),
                               !.eventCount = @ + 1, !.saved = @ + 1]
          ELSE [s EXCEPT !.pc = "dwell", !.temp = FALSE, !.frame = "",
                               !.log = "Error checking story", !.username = <<>>,
                               !.answer = NoValue,
                               !.itemFailures = @ + 1]

renameCapture(ok) ==
    /\ renameCaptureStep(scraper, scraper', ok)
    /\ UNCHANGED trayVars

\* part_004:198
dwellDelayStep(s, t, ok) ==
    /\ s.pc = "dwell"
    /\ t = IF ok THEN [s EXCEPT !.pc = "advance", !.answer = NoValue]
                  ELSE Throws([s EXCEPT !.answer = NoValue])

dwellDelay(ok) ==
    /\ dwellDelayStep(scraper, scraper', ok)
    /\ UNCHANGED trayVars

\* part_004:200-211: nextStory (which catches its own exceptions), the
\* pause after it, and the check that the story surface is still shown.
nextStoryStep(s, t, advanced, ok, inStory) ==
    /\ s.pc = "advance"
    /\ t =
          IF ~advanced \/ (ok /\ ~inStory)
          THEN [s EXCEPT !.pc = "finally", !.log = "Done",
                         !.scanProgress =
                             parseProgressMessage(@,
                                 ProgressLine("Done", s.storyCount,
                                              s.eventCount, <<>>)),
                         !.result = ScanResult("ok", s.storyCount,
                                               s.eventCount)]
          ELSE IF ~ok THEN Throws(s)
          ELSE [s EXCEPT !.pc = "head"]

nextStory(advanced, ok, inStory) ==
    /\ nextStoryStep(scraper, scraper', advanced, ok, inStory)
    /\ UNCHANGED trayVars

\* part_004:215-221
runScraperCatchStep(s, t) ==
    /\ s.pc = "catch"
    /\ t = [s EXCEPT !.pc = "finally",
                                  !.result = ScanResult("error", s.storyCount,
                                                        s.eventCount)]

runScraperCatchDropsCounts ==
    /\ scraper.pc = "catch"
    /\ scraper' = [scraper EXCEPT !.pc = "finally",
                                  !.result = ScanResult("error", 0, 0)]
    /\ UNCHANGED trayVars

runScraperCatch ==
    /\ runScraperCatchStep(scraper, scraper')
    /\ UNCHANGED trayVars

\* part_004:222-227: finally, then the return.
runScraperFinallyStep(s, t) ==
    /\ s.pc = "finally"
    /\ t = [s EXCEPT !.pc = "done", !.temp = FALSE, !.frame = "",
                                  !.browser = "closed"]

runScraperFinally ==
    /\ runScraperFinallyStep(scraper, scraper')
    /\ UNCHANGED trayVars

\* A second runScraper call in progress at the same time: handleScan sets
\* isScanning only after its first await (tray.ts:523-559), so two calls can
\* pass the guard, and both write the one path getTempScreenshotPath()
\* returns (utils.ts:21-23).  Its page.screenshot (part_004:161-179) ...
otherRunScreenshot ==
    /\ scraper.frame # "other"
    /\ scraper' = [scraper EXCEPT !.temp = TRUE, !.frame = "other"]
    /\ UNCHANGED trayVars

\* ... and its rename or unlink of the file (part_004:184-196, 222-225).
otherRunUnlink ==
    /\ scraper.temp
    /\ scraper' = [scraper EXCEPT !.temp = FALSE, !.frame = ""]
    /\ UNCHANGED trayVars

\* ------------------------------------------------------------------------
\* File names of captures (utils.ts:41-45, 52-94; tray.ts:502-508), as the
\* sequences of their characters.  capture.dir: the files of one day
\* directory, each with the handle and the time it was built from
\* (history); capture.listed: what scanAccountImages made of each file;
\* capture.accounts: the accounts saveReviewHistory recorded.
\* ------------------------------------------------------------------------
otherVars == <<isScanning, reviewedEvents, rejectedEvents, hiddenAccounts,
               reviewHistory, store, disk, sessionExists, now, scan,
               pending, unreviewedResult, budget, last, scraper, twin>>

\* Handles getUsername can return, and getTimeString() values (HH-MM-SS).
Usernames ==
    {<<>>, <<"a">>, <<"a", "_", "b">>, <<"a", ".", "b">>, <<"a", "_", "1">>,
     <<"_">>, <<"b", "_">>, <<"1", "a">>}
Times ==
    {<<"1", "0", "-", "0", "0", "-", "0", "0">>,
     <<"0", "0", "-", "0", "0", "-", "0", "1">>}
Digits == {"0", "1"}
\* [a-zA-Z0-9_] over the characters of the handles
WordChars == {"a", "b", "_"} \cup Digits
PngSuffix == <<".", "p", "n", "g">>

NoCapture == [pc |-> "open", dir |-> <<>>, listed |-> <<>>, accounts |-> {}]

\* username.replace(/[^a-zA-Z0-9_]/g, "_")
sanitize(chars) ==
    [n \in DOMAIN chars |-> IF chars[n] \in WordChars THEN chars[n] ELSE "_"]

\* utils.ts:41-45: the file name under the day directory
ScreenshotName(username, time) ==
    sanitize(username) \o <<"_">> \o time \o PngSuffix

\* String.prototype.endsWith
endsWith(chars, suffix) ==
    /\ Len(chars) >= Len(suffix)
    /\ SubSeq(chars, Len(chars) - Len(suffix) + 1, Len(chars)) = suffix

lastIndexOfTakesFirst(chars, c) ==
    IF \E n \in DOMAIN chars : chars[n] = c
    THEN CHOOSE n \in DOMAIN chars :
            chars[n] = c /\ \A m \in DOMAIN chars : chars[m] = c => n <= m
    ELSE 0

\* String.prototype.lastIndexOf, counted from 1: 0 when c does not occur.
lastIndexOf(chars, c) ==
    IF \E n \in DOMAIN chars : chars[n] = c
    THEN CHOOSE n \in DOMAIN chars :
            chars[n] = c /\ \A m \in DOMAIN chars : chars[m] = c => m <= n
    ELSE 0

\* basename(file, ".png")
Basename(file) == SubSeq(file, 1, Len(file) - Len(PngSuffix))

\* utils.ts:75-81: the account scanAccountImages files a directory entry
\* under; NoValue for an entry it passes over.
ScannedUsername(file) ==
    IF ~endsWith(file, PngSuffix) THEN NoValue
    ELSE LET name == Basename(file)
             lastUnderscore == lastIndexOf(name, "_")
         IN IF lastUnderscore = 0 THEN NoValue
            ELSE Str(SubSeq(name, 1, lastUnderscore - 1))

\* tray.ts:505-507: filename.match(/^(.+?)_\d/), the shortest non-empty
\* prefix that an underscore and a digit follow; NoValue without a match.
HistoryAccount(filename) ==
    LET ends == {n \in 1..(Len(filename) - 2) :
                    filename[n + 1] = "_" /\ filename[n + 2] \in Digits}
    IN IF ends = {} THEN NoValue
       ELSE Str(SubSeq(filename, 1,
                       CHOOSE n \in ends : \A m \in ends : n <= m))

\* part_004:184-188: a capture is renamed to buildScreenshotPath(username,
\* dayDir); a file of that name is replaced.
buildScreenshotPath(username, time) ==
    /\ capture.pc = "open"
    /\ Len(capture.dir) < MaxCaptures
    /\ \A n \in DOMAIN capture.dir :
          capture.dir[n].file # ScreenshotName(username, time)
    /\ capture' = [capture EXCEPT
                      !.dir = Append(@, [username |-> username, time |-> time,
                                         file |-> ScreenshotName(username, time)])]
    /\ UNCHANGED <<otherVars, request>>

\* utils.ts:52-94 over the files of the day directory
scanAccountImagesOfDir ==
    /\ capture.pc = "open"
    /\ capture.dir # <<>>
    /\ capture' = [capture EXCEPT
                      !.pc = "listed",
                      !.listed = [n \in DOMAIN capture.dir |->
                                     ScannedUsername(capture.dir[n].file)]]
    /\ UNCHANGED <<otherVars, request>>

\* tray.ts:496-508 with every key of the directory reviewed: the account set
\* of the history entry.
saveReviewHistoryOfKeys ==
    /\ capture.pc = "listed"
    /\ capture' = [capture EXCEPT
                      !.pc = "recorded",
                      !.accounts =
                          {HistoryAccount(capture.dir[n].file).value :
                              n \in {m \in DOMAIN capture.dir :
                                       HistoryAccount(capture.dir[m].file) # NoValue}}]
    /\ UNCHANGED <<otherVars, request>>

\* ------------------------------------------------------------------------
\* The scene-scout:// protocol handler (part_005:24-38).  A path is the
\* sequence of its segments and a segment the sequence of its characters;
\* the path string puts a "/" before every segment.
\* ------------------------------------------------------------------------
DotDot == <<".", ".">>
\* getEventsDir(): <userData>/events
eventsDir == <<<<"u">>, <<"e">>>>
\* Names a request can carry: "..", a date directory, a file, the sibling
\* directory "e2" of the events directory "e", the auth directory.
SegmentNames == {DotDot, <<"d">>, <<"f">>, <<"e", "2">>, <<"a">>}
\* A segment of the request URL: names joined by the escape %2F.
UrlSegments == {<<n>> : n \in SegmentNames} \cup {<<n, m>> : n, m \in SegmentNames}
UrlPaths ==
    {<<>>} \cup {<<x>> : x \in UrlSegments} \cup {<<x, y>> : x, y \in UrlSegments}

RECURSIVE RemoveDots(_, _)
RemoveDots(done, rest) ==
    IF rest = <<>> THEN done
    ELSE IF Head(rest) = DotDot
         THEN RemoveDots(IF done = <<>> THEN <<>>
                         ELSE SubSeq(done, 1, Len(done) - 1), Tail(rest))
         ELSE RemoveDots(Append(done, Head(rest)), Tail(rest))

\* new URL(request.url).pathname (part_005:27-28): the parser drops a
\* segment that is ".." together with the segment before it; a segment that
\* holds an escape is no ".." segment.
RECURSIVE Pathname(_, _)
Pathname(done, rest) ==
    IF rest = <<>> THEN done
    ELSE IF Head(rest) = <<DotDot>>
         THEN Pathname(IF done = <<>> THEN <<>>
                       ELSE SubSeq(done, 1, Len(done) - 1), Tail(rest))
         ELSE Pathname(Append(done, Head(rest)), Tail(rest))

\* decodeURIComponent (part_005:28): every %2F becomes a "/", so the names
\* of a segment become segments of their own.
RECURSIVE decodeURIComponent(_)
decodeURIComponent(segments) ==
    IF segments = <<>> THEN <<>>
    ELSE Head(segments) \o decodeURIComponent(Tail(segments))

\* normalize(join(eventsDir, filePath)) (part_005:30)
Resolved(filePath) == RemoveDots(<<>>, eventsDir \o filePath)

RECURSIVE PathString(_)
PathString(path) ==
    IF path = <<>> THEN <<>>
    ELSE <<"/">> \o Head(path) \o PathString(Tail(path))

NoRequest == [pc |-> "none", url |-> <<>>, resolved |-> <<>>, status |-> ""]

\* part_005:26-38
protocolHandle(url) ==
    /\ request.pc = "none"
    /\ LET filePath == decodeURIComponent(Pathname(<<>>, url))
           resolved == Resolved(filePath)
       IN request' =
             [pc |-> "answered", url |-> url, resolved |-> resolved,
              status |-> IF ~startsWith(PathString(resolved), PathString(eventsDir))
                         THEN "403" ELSE "fetch"]
    /\ UNCHANGED <<otherVars, capture>>

\* ------------------------------------------------------------------------
\* The system
\* ------------------------------------------------------------------------
Init ==
    /\ isScanning = FALSE
    /\ \E st \in InitialStates :
          /\ disk = st.files
          /\ reviewedEvents = st.reviewed
          /\ rejectedEvents = st.rejected
          /\ hiddenAccounts = st.hidden
          /\ reviewHistory = st.history
    /\ store \in [lastError : {""}, lastScanTime : {0}, lastEventCount : {0},
                  lastStoryCount : {0}, lastAutoScanTime : {0},
                  openrouterApiKey : {"", "sk"}, autoScanEnabled : {TRUE}]
    /\ sessionExists \in BOOLEAN
    /\ now = StartTime
    /\ scan = [i \in 1..MaxScans |-> NotInvoked]
    /\ pending = <<>>
    /\ unreviewedResult = [returned |-> FALSE, files |-> {}, events |-> <<>>]
    /\ budget = [ops |-> 0, scans |-> 0, stories |-> 0]
    /\ last = NoEvent
    /\ scraper = NotCalled
    /\ twin = NotCalled
    /\ capture = NoCapture
    /\ request = NoRequest

Next ==
    \/ \E key \in disk, approved \in BOOLEAN : reviewEventHandler(key, approved)
    \/ \E username \in Accounts : hideAccountHandler(username)
    \/ \E i \in DOMAIN pending : hideAccountThen(i)
    \/ \E username \in Accounts : unhideAccountHandler(username)
    \/ \E i \in DOMAIN pending : unhideAccountThen(i)
    \/ \E username \in Accounts, hidden \in BOOLEAN :
          toggleAccountHandler(username, hidden)
    \/ getUnreviewedHandler
    \/ \E i \in DOMAIN pending : getUnreviewedThen(i)
    \/ handleScan
    \/ \E trigger \in Triggers, idleTime \in IdleTimes :
          tryAutoScan(trigger, idleTime)
    \/ \E i \in 1..MaxScans : handleScanGuard(i)
    \/ \E i \in 1..MaxScans, w \in BOOLEAN : handleScanGuardThrows(i, w)
    \/ \E i \in 1..MaxScans, isEvent \in BOOLEAN, key \in AllKeys :
          runScraperStory(i, isEvent, key)
    \/ \E i \in 1..MaxScans : handleScanResultError(i)
    \/ \E i \in 1..MaxScans : handleScanCatch(i)
    \/ \E i \in 1..MaxScans : handleScanResultOk(i)
    \/ \E i \in 1..MaxScans : handleScanFinish(i)

Spec == Init /\ [][Next]_vars

\* One runScraper call on its own, with a key and three captures on disk.
ScraperInit ==
    /\ Init
    /\ disk = AllKeys
    /\ reviewedEvents = <<>>
    /\ store.openrouterApiKey = "sk"

ScraperNext ==
    \/ runScraper
    \/ \E ok \in BOOLEAN : chromiumLaunch(ok)
    \/ \E ok \in BOOLEAN : newContextAndPage(ok)
    \/ \E ok \in BOOLEAN : pageGoto(ok)
    \/ \E count \in {0, 1}, ok \in BOOLEAN : storyButtonCount(count, ok)
    \/ \E ok \in BOOLEAN : storyButtonClick(ok)
    \/ \E inStory, sameUrl, ok \in BOOLEAN : isStoryView(inStory, sameUrl, ok)
    \/ \E href \in Hrefs, text \in Texts : storyUsername(href, text)
    \/ \E ok, written \in BOOLEAN : pageScreenshot(ok, written)
    \/ \E answer \in Answers : isEventPromotion(answer)
    \/ \E ok \in BOOLEAN : renameCapture(ok)
    \/ \E ok \in BOOLEAN : dwellDelay(ok)
    \/ \E advanced, ok, inStory \in BOOLEAN : nextStory(advanced, ok, inStory)
    \/ runScraperCatch
    \/ runScraperFinally

ScraperSpec == ScraperInit /\ [][ScraperNext]_vars

\* The session file belongs to the login flow and to the user: it is looked
\* up anew at every check (tray.ts:375, 1702; part_004:89) and can be gone
\* at one check after it was found at an earlier one.
sessionRemoved ==
    /\ sessionExists
    /\ sessionExists' = FALSE
    /\ UNCHANGED <<isScanning, reviewHistory, store, scraper, twin, capture, request, now, scan, ledger,
                   disk, pending, unreviewedResult, budget, last>>

SessionNext ==
    \/ Next
    \/ sessionRemoved

SessionSpec == Init /\ [][SessionNext]_vars

\* Date.now() advances between two steps of the main process, by half an
\* hour or by the minimum gap.
Tick(d) ==
    /\ now + d <= StartTime + MaxElapsed
    /\ now' = now + d
    /\ UNCHANGED <<isScanning, reviewHistory, store, sessionExists, scraper, twin, capture, request,
                   scan, ledger, disk, pending, unreviewedResult, budget, last>>

ClockNext ==
    \/ Next
    \/ \E d \in {1, AUTO_SCAN_MIN_GAP_MS} : Tick(d)

ClockSpec == Init /\ [][ClockNext]_vars

\* Two runScraper calls that differ in the hiddenAccounts list they are
\* given and meet the same feed and the same classifier answers, step by
\* step: scraper is called with hiddenAccounts, twin with this list.
OtherHiddenAccounts ==
    IF hiddenAccounts = <<>> THEN <<"alice2", "alice">> ELSE <<>>

TwinInit ==
    /\ Init
    /\ store.openrouterApiKey = "sk"

TwinNext ==
    \/ /\ runScraperStep(scraper, scraper', hiddenAccounts)
       /\ runScraperStep(twin, twin', OtherHiddenAccounts)
       /\ UNCHANGED callerVars
    \/ \E ok \in BOOLEAN :
          /\ chromiumLaunchStep(scraper, scraper', ok)
          /\ chromiumLaunchStep(twin, twin', ok)
          /\ UNCHANGED callerVars
    \/ \E ok \in BOOLEAN :
          /\ newContextAndPageStep(scraper, scraper', ok)
          /\ newContextAndPageStep(twin, twin', ok)
          /\ UNCHANGED callerVars
    \/ \E ok \in BOOLEAN :
          /\ pageGotoStep(scraper, scraper', ok)
          /\ pageGotoStep(twin, twin', ok)
          /\ UNCHANGED callerVars
    \/ \E count \in {0, 1}, ok \in BOOLEAN :
          /\ storyButtonCountStep(scraper, scraper', count, ok)
          /\ storyButtonCountStep(twin, twin', count, ok)
          /\ UNCHANGED callerVars
    \/ \E ok \in BOOLEAN :
          /\ storyButtonClickStep(scraper, scraper', ok)
          /\ storyButtonClickStep(twin, twin', ok)
          /\ UNCHANGED callerVars
    \/ \E inStory, sameUrl, ok \in BOOLEAN :
          /\ isStoryViewStep(scraper, scraper', inStory, sameUrl, ok)
          /\ isStoryViewStep(twin, twin', inStory, sameUrl, ok)
          /\ UNCHANGED callerVars
    \/ \E href \in Hrefs, text \in Texts :
          /\ storyUsernameStep(scraper, scraper', href, text)
          /\ storyUsernameStep(twin, twin', href, text)
          /\ UNCHANGED callerVars
    \/ \E ok, written \in BOOLEAN :
          /\ pageScreenshotStep(scraper, scraper', ok, written)
          /\ pageScreenshotStep(twin, twin', ok, written)
          /\ UNCHANGED callerVars
    \/ \E answer \in Answers :
          /\ isEventPromotionStep(scraper, scraper', answer)
          /\ isEventPromotionStep(twin, twin', answer)
          /\ UNCHANGED callerVars
    \/ \E ok \in BOOLEAN :
          /\ renameCaptureStep(scraper, scraper', ok)
          /\ renameCaptureStep(twin, twin', ok)
          /\ UNCHANGED callerVars
    \/ \E ok \in BOOLEAN :
          /\ dwellDelayStep(scraper, scraper', ok)
          /\ dwellDelayStep(twin, twin', ok)
          /\ UNCHANGED callerVars
    \/ \E advanced, ok, inStory \in BOOLEAN :
          /\ nextStoryStep(scraper, scraper', advanced, ok, inStory)
          /\ nextStoryStep(twin, twin', advanced, ok, inStory)
          /\ UNCHANGED callerVars
    \/ /\ runScraperCatchStep(scraper, scraper')
       /\ runScraperCatchStep(twin, twin')
       /\ UNCHANGED callerVars
    \/ /\ runScraperFinallyStep(scraper, scraper')
       /\ runScraperFinallyStep(twin, twin')
       /\ UNCHANGED callerVars

TwinSpec == TwinInit /\ [][TwinNext]_vars

\* The same call while another runScraper call is in progress.
OverlapNext ==
    \/ ScraperNext
    \/ otherRunScreenshot
    \/ otherRunUnlink

OverlapSpec == ScraperInit /\ [][OverlapNext]_vars

\* The same call with no limit on the passes of the loop.  The loop reads
\* neither storyCount nor eventCount (part_004:139-212), so a counter that
\* has reached MaxStories is held there, in the caller's progress record
\* too; the history counters of the model are not kept.
Held(s) ==
    LET hold(n) == IF n >= MaxStories THEN MaxStories - 1 ELSE n
    IN [s EXCEPT !.iter = 0, !.storyCount = hold(@), !.eventCount = hold(@),
                 !.scanProgress = [currentStory |-> hold(@.currentStory),
                                   eventCount |-> hold(@.eventCount)],
                 !.shots = 0, !.saved = 0, !.itemFailures = 0, !.skips = 0]

LoopNext ==
    \/ runScraper
    \/ \E ok \in BOOLEAN : chromiumLaunch(ok)
    \/ \E ok \in BOOLEAN : newContextAndPage(ok)
    \/ \E ok \in BOOLEAN : pageGoto(ok)
    \/ \E count \in {0, 1}, ok \in BOOLEAN : storyButtonCount(count, ok)
    \/ \E ok \in BOOLEAN : storyButtonClick(ok)
    \/ \E inStory, sameUrl, ok \in BOOLEAN :
          /\ isStoryViewStep(Held(scraper), scraper', inStory, sameUrl, ok)
          /\ UNCHANGED trayVars
    \/ \E href \in Hrefs, text \in Texts : storyUsername(href, text)
    \/ \E ok, written \in BOOLEAN :
          /\ pageScreenshotStep(Held(scraper), scraper', ok, written)
          /\ UNCHANGED trayVars
    \/ \E answer \in Answers :
          /\ isEventPromotionStep(Held(scraper), scraper', answer)
          /\ UNCHANGED trayVars
    \/ \E ok \in BOOLEAN :
          /\ renameCaptureStep(Held(scraper), scraper', ok)
          /\ UNCHANGED trayVars
    \/ \E ok \in BOOLEAN : dwellDelay(ok)
    \/ \E advanced, ok, inStory \in BOOLEAN : nextStory(advanced, ok, inStory)
    \/ runScraperCatch
    \/ runScraperFinally

\* Every awaited call of the run resolves or rejects in the end.
LoopSpec == ScraperInit /\ [][LoopNext]_vars /\ WF_vars(LoopNext)

\* One launch with a session and a key, for the parts of the program that
\* read neither the ledger nor the events on disk.
HelperInit ==
    /\ Init
    /\ disk = {Key(1, "alice", 1)}
    /\ reviewHistory = <<>>
    /\ sessionExists
    /\ store.openrouterApiKey = "sk"

CaptureNext ==
    \/ \E username \in Usernames, time \in Times :
          buildScreenshotPath(username, time)
    \/ scanAccountImagesOfDir
    \/ saveReviewHistoryOfKeys

CaptureSpec == HelperInit /\ [][CaptureNext]_vars

ProtocolNext == \E url \in UrlPaths : protocolHandle(url)

ProtocolSpec == HelperInit /\ [][ProtocolNext]_vars

TypeOK ==
    /\ isScanning \in BOOLEAN
    /\ Range(reviewedEvents) \subseteq AllKeys
    /\ Range(rejectedEvents) \subseteq AllKeys
    /\ Range(hiddenAccounts) \subseteq Accounts
    /\ disk \subseteq AllKeys
    /\ Len(pending) <= MaxOps

\* ========================================================================
\* Properties
\* ========================================================================
Executing(i) == scan[i].pc \in {"snapshot", "scraping", "listing"}
Traversing(i) == scan[i].pc = "scraping" /\ scan[i].run = "running"
Unreviewed(k) == ~Includes(reviewedEvents, k) /\ ~Includes(rejectedEvents, k)

\* C1: at most one runScraper traversal is in progress at any time, whatever
\* the interleaving of manual scans and automatic triggers.
C1_OneTraversalAtATime ==
    Cardinality({i \in 1..MaxScans : Traversing(i)}) <= 1

\* C2: whenever no handleScan invocation is executing, isScanning is false
\* (the guard is cleared on every exit path, an exception thrown after the
\* guard was set included).
C2_GuardClearedWhenIdle ==
    (\A i \in 1..MaxScans : ~Executing(i)) => ~isScanning

\* C3: no event key is in both reviewedEvents and rejectedEvents.
C3_ApprovedRejectedDisjoint ==
    Range(reviewedEvents) \cap Range(rejectedEvents) = {}

\* C4: review(k, true) followed by review(k, false) leaves k in the rejected
\* set and not in the approved set.
C4_LastReviewWins ==
    (last.ev = "review" /\ last.chain = "reversal" /\ ~last.approved)
        => (Includes(rejectedEvents, last.key) /\ ~Includes(reviewedEvents, last.key))

\* C5: review(k, d) called twice in a row leaves reviewedEvents and
\* rejectedEvents as the first call left them, without duplicate entries.
C5_ReviewIdempotent ==
    [][\A k \in AllKeys, d \in BOOLEAN :
         (last.ev = "review" /\ last.key = k /\ last.approved = d
          /\ reviewEventHandler(k, d))
         => /\ reviewedEvents' = reviewedEvents
            /\ rejectedEvents' = rejectedEvents
            /\ NoDuplicates(reviewedEvents')
            /\ NoDuplicates(rejectedEvents')]_vars

C5_Witness ==
    last.ev = "review" /\ last.chain = "repeat"

\* C6: hideAccount(a) run to completion, then unhideAccount(a) run to
\* completion, leaves every event of a that was unreviewed before the hide
\* unreviewed, and a not hidden.
C6_HideThenUnhideRestores ==
    (last.ev = "unhideDone" /\ last.chain = "serial-complete")
        => /\ \A k \in last.unrev : Unreviewed(k)
           /\ ~Includes(hiddenAccounts, last.account)

C6_Witness ==
    /\ last.ev = "unhideDone"
    /\ last.chain = "serial-complete"
    /\ last.unrev # {}
    /\ Range(last.start.rejected) # {}

\* C7: hideAccount(a) returns the number of a's events that were unreviewed
\* when the hide was requested; when it completes those keys are rejected
\* and a is in hiddenAccounts.
C7_HideRejectsWhatWasUnreviewed ==
    last.ev = "hideDone"
        => /\ last.count = Cardinality(last.unrev)
           /\ \A k \in last.unrev : Includes(rejectedEvents, k)
           /\ Includes(hiddenAccounts, last.account)

\* The two serial orders of hide(a) and unhide(a) from a ledger state, as
\* (hidden accounts, rejected keys).
KeysOfAccount(files, a) == {k \in files : k.account = a}
HideSerial(st, a) ==
    [hidden |-> Range(st.hidden) \cup {a},
     rejected |-> Range(RejectUnreviewed(scanAccountImages(st.files)[a],
                                         st.reviewed, st.rejected))]
UnhideSerial(st, a) ==
    [hidden |-> Range(st.hidden) \ {a},
     rejected |-> Range(st.rejected) \ KeysOfAccount(st.files, a)]
AsLists(r, st) ==
    [hidden |-> SortedAccounts(r.hidden), reviewed |-> st.reviewed,
     rejected |-> SortedSeq(r.rejected), files |-> st.files]

\* C8: hideAccount(a) and unhideAccount(a) issued concurrently end in the
\* state of one of the two serial orders.
C8_HideUnhideSerializable ==
    (last.chain = "concurrent-complete" /\ disk = last.start.files)
        => LET a == last.account
               st == last.start
               final == [hidden |-> Range(hiddenAccounts),
                         rejected |-> Range(rejectedEvents)]
           IN \/ final = UnhideSerial(AsLists(HideSerial(st, a), st), a)
              \/ final = HideSerial(AsLists(UnhideSerial(st, a), st), a)

\* C9: every operation that takes an account from visible to hidden
\* (hide-account, toggle-account with hidden = true) leaves no event of that
\* account unreviewed.
C9_NewlyHiddenHasNoUnreviewed ==
    (\/ last.ev = "toggle" /\ last.chain = "now-hidden"
     \/ last.ev = "hideDone" /\ ~Includes(last.start.hidden, last.account)
        /\ last.chain = "hide-done")
        => UnreviewedOf(last.account) = {}

\* C10: unreviewedEvents returns exactly the events on disk whose key is in
\* neither reviewedEvents nor rejectedEvents and whose account is not hidden.
C10_UnreviewedExact ==
    [][\A i \in DOMAIN pending :
         getUnreviewedThen(i)
         => /\ Range(unreviewedResult'.events) =
                 {k \in disk : /\ ~Includes(reviewedEvents, k)
                               /\ ~Includes(rejectedEvents, k)
                               /\ ~Includes(hiddenAccounts, k.account)}
            /\ NoDuplicates(unreviewedResult'.events)]_vars

C10_Witness ==
    /\ unreviewedResult.returned
    /\ unreviewedResult.events # <<>>
    /\ \E k \in unreviewedResult.files : Includes(reviewedEvents, k)
    /\ \E k \in unreviewedResult.files :
          /\ Includes(hiddenAccounts, k.account)
          /\ k \notin Range(unreviewedResult.events)

\* Key order by code units: "<date>/<account>_<time>.png" compared character
\* by character.
LexGreater(k1, k2) ==
    \/ k1.date > k2.date
    \/ k1.date = k2.date /\ CodeUnitRank[k1.account] > CodeUnitRank[k2.account]
    \/ k1.date = k2.date /\ k1.account = k2.account /\ k1.time > k2.time

\* Key order under localeCompare.
LocaleGreater(k1, k2) ==
    \/ k1.date > k2.date
    \/ k1.date = k2.date /\ AccountRank[k1.account] > AccountRank[k2.account]
    \/ k1.date = k2.date /\ k1.account = k2.account /\ k1.time > k2.time

OrderedBy(events, Greater(_, _)) ==
    \A m, n \in DOMAIN events :
        m < n => \/ events[m].date > events[n].date
                 \/ events[m].date = events[n].date /\ Greater(events[m], events[n])

\* C11 as stated: the sequence returned by unreviewedEvents is ordered by date
\* descending and, within one date, the lexicographically (code unit by code
\* unit) greater key comes first.
C11_SortedLexicographic ==
    unreviewedResult.returned => OrderedBy(unreviewedResult.events, LexGreater)

\* C11 amended: the sequence returned by unreviewedEvents is ordered by date
\* descending and, within one date, by key descending in the order of
\* localeCompare; no two returned events compare equal.
C11_SortedByLocaleCompare ==
    [][\A i \in DOMAIN pending :
         getUnreviewedThen(i)
         => OrderedBy(unreviewedResult'.events, LocaleGreater)]_vars

C11_Witness ==
    /\ unreviewedResult.returned
    /\ \E m, n \in DOMAIN unreviewedResult.events :
          /\ m < n
          /\ unreviewedResult.events[m].date = unreviewedResult.events[n].date
          /\ unreviewedResult.events[m].account # unreviewedResult.events[n].account
    /\ \E m, n \in DOMAIN unreviewedResult.events :
          unreviewedResult.events[m].date > unreviewedResult.events[n].date

\* C12: the new-event count computed after a successful run is the number of
\* keys on disk after the run that are in none of the three snapshots taken
\* before the run (known on disk, reviewed, rejected).
C12_NewEventCount ==
    [][\A i \in 1..MaxScans :
         handleScanFinish(i)
         => LET prior == scan[i].knownKeysBefore \cup scan[i].reviewedBefore
                             \cup scan[i].rejectedBefore
                n == Cardinality(disk \ prior)
            IN IF n > 0 THEN last'.ev = "rotate" /\ last'.count = n
               ELSE last' = last]_vars

C12_Witness ==
    /\ last.ev = "rotate"
    /\ last.count = 1
    /\ \E i \in 1..MaxScans :
          /\ scan[i].pc = "returned"
          /\ scan[i].knownKeysBefore # {}
          /\ Cardinality(disk) = Cardinality(scan[i].knownKeysBefore) + 1

\* Keys on disk after the run of invocation i that are in none of its three
\* snapshots.
NewSince(i) ==
    disk \ (scan[i].knownKeysBefore \cup scan[i].reviewedBefore
              \cup scan[i].rejectedBefore)

\* C13: when rotation runs with reviewedEvents or rejectedEvents non-empty,
\* one step appends exactly one entry whose approvedCount and rejectedCount
\* are the sizes of the two sets and empties both sets (no other handler runs
\* between the append and the clear).
C13_RotationAppendsAndClears ==
    [][\A i \in 1..MaxScans :
         (/\ handleScanFinish(i)
          /\ NewSince(i) # {}
          /\ (reviewedEvents # <<>> \/ rejectedEvents # <<>>))
         => /\ Len(reviewHistory') = Len(reviewHistory) + 1
            /\ SubSeq(reviewHistory', 1, Len(reviewHistory)) = reviewHistory
            /\ reviewHistory'[Len(reviewHistory')].approvedCount =
                  Cardinality(Range(reviewedEvents))
            /\ reviewHistory'[Len(reviewHistory')].rejectedCount =
                  Cardinality(Range(rejectedEvents))
            /\ reviewedEvents' = <<>>
            /\ rejectedEvents' = <<>>]_vars

C13_Witness ==
    /\ last.ev = "rotate"
    /\ reviewedEvents = <<>>
    /\ rejectedEvents = <<>>
    /\ reviewHistory # <<>>
    /\ reviewHistory[Len(reviewHistory)].approvedCount >= 1
    /\ reviewHistory[Len(reviewHistory)].rejectedCount >= 1

\* C14 as stated: every scan cycle that discovers at least one new event
\* makes reviewHistory grow by exactly one entry.
C14_OneEntryPerNewEventCycle ==
    [][\A i \in 1..MaxScans :
         (handleScanFinish(i) /\ NewSince(i) # {})
         => Len(reviewHistory') = Len(reviewHistory) + 1]_vars

\* C14 amended: a scan cycle that discovers at least one new event makes
\* reviewHistory grow by exactly one entry when reviewedEvents or
\* rejectedEvents is non-empty at that moment, and by none when both are
\* empty.
C14_OneEntryPerReviewedBatch ==
    [][\A i \in 1..MaxScans :
         (handleScanFinish(i) /\ NewSince(i) # {})
         => Len(reviewHistory') =
               Len(reviewHistory)
               + (IF Range(reviewedEvents) \cup Range(rejectedEvents) = {}
                  THEN 0 ELSE 1)]_vars

C14_Witness ==
    /\ last.ev = "rotate"
    /\ reviewHistory = <<>>
    /\ \E i \in 1..MaxScans : scan[i].pc = "returned" /\ scan[i].eventCount = 1

\* C15: a step of a scan changes reviewedEvents, rejectedEvents or
\* reviewHistory only when it is the end of a run that found at least one new
\* event; a successful scan with a new-event count of zero leaves all three
\* unchanged.
C15_NoNewEventsNoRotation ==
    [][(/\ scan' # scan
        /\ \/ reviewedEvents' # reviewedEvents
           \/ rejectedEvents' # rejectedEvents
           \/ reviewHistory' # reviewHistory)
       => \E i \in 1..MaxScans :
             /\ scan[i].pc = "listing"
             /\ scan'[i].pc = "returned"
             /\ NewSince(i) # {}]_vars

C15_Witness ==
    /\ budget.scans = 1
    /\ scan[1].pc = "returned"
    /\ scan[1].eventCount = 1
    /\ store.lastEventCount = 1
    /\ reviewedEvents # <<>>
    /\ last.ev # "rotate"

\* C16: reviewHistory is append-only: every step keeps the entries it had, in
\* place and unchanged.
C16_HistoryAppendOnly ==
    [][/\ Len(reviewHistory') >= Len(reviewHistory)
       /\ SubSeq(reviewHistory', 1, Len(reviewHistory)) = reviewHistory]_vars

C16_Witness ==
    /\ Len(reviewHistory) = 2
    /\ reviewHistory[1].timestamp = 0
    /\ last.ev = "review"

\* unreviewedEvents would return key k.
Returned(k, reviewed, rejected, hidden) ==
    /\ k \in disk
    /\ ~Includes(reviewed, k)
    /\ ~Includes(rejected, k)
    /\ ~Includes(hidden, k.account)

\* C17: a key that is approved or rejected is not returned by
\* unreviewedEvents after any later step of a scan or of a review action (a
\* step that is no part of a hide, unhide or toggle of an account).
C17_ReviewedStaysReviewed ==
    [][\A k \in disk :
         (/\ Includes(reviewedEvents, k) \/ Includes(rejectedEvents, k)
          /\ pending' = pending
          /\ hiddenAccounts' = hiddenAccounts)
         => ~Returned(k, reviewedEvents', rejectedEvents', hiddenAccounts')]_vars

\* C18: a classifier call or a capture rename that throws discards the frame,
\* leaves eventCount as it was and goes on to the dwell step; a run in which
\* nothing else throws returns without error, with every story counted.
C18_ItemFailureContinues ==
    [][/\ scraper'.itemFailures # scraper.itemFailures
          => /\ scraper.pc \in {"classify", "save"}
             /\ ~scraper'.temp
             /\ scraper'.eventCount = scraper.eventCount
             /\ scraper'.saved = scraper.saved
             /\ scraper'.storyCount = scraper.storyCount
             /\ scraper'.pc = "dwell"
             /\ scraper'.result = NoResult
       /\ (scraper'.pc = "done" /\ scraper.pc = "finally"
           /\ scraper.thrown.at = "")
          => /\ scraper'.result.kind = "ok"
             /\ scraper'.result.storyCount = scraper'.shots
             /\ scraper'.result.eventCount = scraper'.saved]_vars

C18_Witness ==
    /\ scraper.pc = "done"
    /\ scraper.itemFailures >= 1
    /\ scraper.result.kind = "ok"
    /\ scraper.result.storyCount >= 3
    /\ scraper.saved >= 1

\* C19: when a navigation or capture step throws inside the traversal,
\* runScraper returns (it does not throw) a result with error set and the
\* storyCount and eventCount reached when the step threw.
C19_FailureReportsPartialCounts ==
    (scraper.pc = "done" /\ scraper.thrown.at # "")
        => /\ scraper.result.kind = "error"
           /\ scraper.result.storyCount = scraper.thrown.storyCount
           /\ scraper.result.eventCount = scraper.thrown.eventCount

C19_Witness ==
    /\ scraper.pc = "done"
    /\ scraper.thrown.at \in {"shot", "dwell", "advance"}
    /\ scraper.result.storyCount >= 2
    /\ scraper.result.eventCount >= 1

\* C20: on every exit of runScraper after the browser was launched, the
\* browser has been closed and the temporary capture file does not exist.
C20_CleanupOnEveryExit ==
    (scraper.pc = "done" /\ scraper.browser # "none")
        => scraper.browser = "closed" /\ ~scraper.temp

\* C21: the temporary capture file does not exist at the start of a loop
\* iteration (before the frame of that iteration is captured) nor after a
\* capture attempt (once the verdict, the rename or the error was handled).
C21_TempAbsentBetweenAttempts ==
    scraper.pc \in {"head", "shot", "dwell", "advance"} => ~scraper.temp

\* C22: a handleScan invocation that ends because runScraper returned an
\* error or threw has written no store key but lastError: every step it
\* takes outside the success path (tray.ts:578-633) leaves reviewedEvents,
\* rejectedEvents, hiddenAccounts, reviewHistory, lastScanTime,
\* lastEventCount, lastStoryCount and lastAutoScanTime as they were, and the
\* step that ends it records the error in lastError.
C22_FailedRunWritesOnlyLastError ==
    [][\A i \in 1..MaxScans :
         /\ (scan'[i] # scan[i] /\ scan[i].pc # "listing"
                               /\ scan'[i].pc # "listing")
            => /\ ledger' = ledger
               /\ reviewHistory' = reviewHistory
               /\ \A k \in DOMAIN store \ {"lastError"} : store'[k] = store[k]
         /\ (scan[i].pc = "scraping" /\ scan'[i].pc = "returned")
            => store'.lastError # ""]_vars

C22_Witness ==
    \E i \in 1..MaxScans :
        /\ scan[i].pc = "returned"
        /\ scan[i].storyCount >= 1
        /\ store.lastError = "result.error"
        /\ store.lastScanTime = 0
        /\ reviewedEvents # <<>>

\* C23: a runScraper call that finds no session file returns at once with
\* storyCount 0, eventCount 0 and an error; it has launched no browser, made
\* no directory, written no file and emitted no progress line.
C23_NoSessionReturnsAtOnce ==
    (~sessionExists /\ scraper.pc # "idle")
        => scraper = [NotCalled EXCEPT !.pc = "done",
                                       !.result = ScanResult("error", 0, 0)]

C23_Witness ==
    /\ ~sessionExists
    /\ scraper.pc = "done"
    /\ scraper.result = ScanResult("error", 0, 0)
    /\ scraper.browser = "none"
    /\ scraper.log = ""

\* C24: a precondition failure has no side effect in handleScan: with the
\* API key missing no invocation gets past the check, and an invocation
\* whose runScraper call reports the missing session has, up to that
\* report, neither set isScanning nor written a store key.
C24_PreconditionFailureNoSideEffect ==
    [][\A i \in 1..MaxScans :
         /\ (store.openrouterApiKey = "" /\ scan[i].pc = "idle")
            => scan'[i].pc = "idle"
         /\ (scan[i].run = "none" /\ scan'[i].run = "nosession")
            => (isScanning' = isScanning /\ store' = store)]_vars

\* C25: the recovery skip is taken when, and only when, the stuck counter
\* reaches MAX_STUCK on an unchanged location; the iteration that takes it
\* skips once, resets the counter to 0, forgets the location, counts,
\* captures and classifies nothing, and goes back to the loop condition
\* (the run ends there only if the pause after the skip throws).
C25_StuckSkipOnceAndContinue ==
    [][/\ scraper'.skips # scraper.skips
          => /\ scraper.pc = "head"
             /\ scraper.lastUrl # ""
             /\ scraper.stuckCount + 1 = MAX_STUCK
             /\ scraper'.skips = scraper.skips + 1
             /\ scraper'.stuckCount = 0
             /\ scraper'.lastUrl = ""
             /\ scraper'.storyCount = scraper.storyCount
             /\ scraper'.shots = scraper.shots
             /\ scraper'.eventCount = scraper.eventCount
             /\ scraper'.saved = scraper.saved
             /\ scraper'.temp = scraper.temp
             /\ scraper'.result = NoResult
             /\ \/ scraper'.pc = "head"
                \/ scraper'.pc = "catch" /\ scraper'.thrown.at = "head"
       /\ scraper'.stuckCount < MAX_STUCK
       /\ scraper'.storyCount # scraper.storyCount
          => scraper'.skips = scraper.skips]_vars

C25_Witness ==
    /\ scraper.skips = 1
    /\ scraper.pc = "shot"
    /\ scraper.storyCount = MAX_STUCK + 1
    /\ scraper.stuckCount = 0

\* C26: a capture is added to the events directory only by an iteration
\* whose classifier call answered yes for the frame that iteration captured,
\* the file added being that frame; each addition raises eventCount by one,
\* so eventCount is the number of captures the run has persisted, and that
\* is the eventCount the run returns.
C26_SavedOnlyOnPositiveVerdict ==
    [][/\ scraper'.saved # scraper.saved
          => /\ scraper.pc = "save"
             /\ scraper.verdict = "yes"
             /\ scraper.judged = "own"
             /\ scraper.frame = "own"
             /\ scraper'.saved = scraper.saved + 1
       /\ scraper'.eventCount = scraper'.saved
       /\ scraper'.pc = "done" /\ scraper'.result.kind # "threw"
          => scraper'.result.eventCount = scraper'.saved]_vars

\* The handle the fallback order of C27 gives for the two locator results.
UsernameInFallbackOrder(href, text) ==
    IF href.kind = "string" /\ StripSlashes(href.value) # <<>>
    THEN StripSlashes(href.value)
    ELSE IF text.kind = "string" /\ Trim(text.value) # <<>>
                                /\ Len(text.value) < UsernameTextLimit
         THEN Trim(text.value)
         ELSE Placeholder

\* C27: getUsername falls back in order and never returns an empty handle:
\* the first locator's handle when it is non-empty; otherwise (it threw, or
\* gave null or nothing but slashes) the second locator's text when that is
\* usable; the placeholder only when both fail.
C27_UsernameFallsBackInOrder ==
    scraper.pc = "shot"
        => /\ scraper.username # <<>>
           /\ scraper.username =
                 UsernameInFallbackOrder(scraper.href, scraper.text)

\* C28: two runScraper calls given different hiddenAccounts lists, over the
\* same feed behaviour and the same classifier answers, are in the same
\* state after every step: the same stories counted, frames captured,
\* classifier calls and answers, captures persisted, progress lines, and in
\* the end the same ScanResult.
C28_TraversalIgnoresHiddenAccounts ==
    /\ OtherHiddenAccounts # hiddenAccounts
    /\ twin = scraper

C28_Witness ==
    /\ scraper.pc = "done"
    /\ twin.pc = "done"
    /\ scraper.result = ScanResult("ok", 2, 1)
    /\ twin.result = scraper.result
    /\ scraper.saved = 1
    /\ hiddenAccounts # <<>>

\* C29: tryAutoScan starts a scan only when the system idle time it read is
\* at least IDLE_THRESHOLD_SECONDS; with the user present (idle time below
\* the threshold) it starts none.
C29_AutoScanOnlyWhenIdle ==
    [][\A i \in 1..MaxScans :
         (scan[i].pc = "idle" /\ scan'[i].pc = "snapshot"
                              /\ scan'[i].by = "auto")
            => scan'[i].idleTime >= IDLE_THRESHOLD_SECONDS]_vars

\* C30: tryAutoScan goes on to handleScan, with the session present so that
\* the traversal is started, only when at least AUTO_SCAN_MIN_GAP_MS have
\* passed since the traversal of every run that has ended was started,
\* whether that run was started from the menu or by tryAutoScan (no other
\* invocation being under way).
C30_AutoScanKeepsMinimumGap ==
    [][\A i \in 1..MaxScans :
         (/\ scan[i].pc = "idle"
          /\ scan'[i].pc = "snapshot"
          /\ scan'[i].by = "auto"
          /\ sessionExists
          /\ \A j \in 1..MaxScans \ {i} : ~Executing(j))
            => \A j \in 1..MaxScans \ {i} :
                  scan[j].run = "ended"
                     => now - scan[j].startedAt >= AUTO_SCAN_MIN_GAP_MS]_vars

\* C31: the three snapshots of an invocation (reviewed, rejected, known on
\* disk) are written only before its traversal is started and before any
\* story is counted, the listing after the run is made only once the run has
\* ended, and no step of another handler (review, hide, unhide, toggle)
\* taken while the traversal is running changes the new-event count.
C31_SnapshotsBracketTraversal ==
    [][\A i \in 1..MaxScans :
         /\ (\/ scan'[i].reviewedBefore # scan[i].reviewedBefore
             \/ scan'[i].rejectedBefore # scan[i].rejectedBefore
             \/ scan'[i].knownKeysBefore # scan[i].knownKeysBefore)
            => (scan[i].run = "none" /\ scan[i].storyCount = 0)
         /\ scan'[i].storyCount # scan[i].storyCount
            => (Traversing(i) /\ scan'[i].knownKeysBefore = scan[i].knownKeysBefore)
         /\ (scan[i].pc = "listing" /\ scan'[i].pc # "listing")
            => scan[i].run = "ended"
         /\ (Traversing(i) /\ scan' = scan)
            => NewEventCount(i, disk)' = NewEventCount(i, disk)]_vars

C31_Witness ==
    \E i \in 1..MaxScans :
        /\ Traversing(i)
        /\ scan[i].storyCount = 1
        /\ last.ev = "review"
        /\ last.key \notin scan[i].reviewedBefore \cup scan[i].rejectedBefore
        /\ last.key \in scan[i].knownKeysBefore
        /\ Includes(reviewedEvents, last.key) \/ Includes(rejectedEvents, last.key)

\* C32: unhideAccount(a) removes a from hiddenAccounts and removes from
\* rejectedEvents exactly the keys of a's events on disk: its first step
\* drops a from hiddenAccounts and nothing else, its completion drops a's
\* on-disk keys from rejectedEvents and nothing else, and neither step
\* touches reviewedEvents, a rejected key of another account or the hidden
\* flag of another account.
C32_UnhideFrame ==
    [][/\ \A a \in Accounts :
            unhideAccountHandler(a)
            => /\ hiddenAccounts' = SelectSeq(hiddenAccounts, LAMBDA b : b # a)
               /\ reviewedEvents' = reviewedEvents
               /\ rejectedEvents' = rejectedEvents
       /\ \A i \in DOMAIN pending :
            unhideAccountThen(i)
            => /\ rejectedEvents' =
                     SelectSeq(rejectedEvents,
                               LAMBDA k : k \notin KeysOfAccount(disk, pending[i].username))
               /\ reviewedEvents' = reviewedEvents
               /\ hiddenAccounts' = hiddenAccounts]_vars

\* The first token of an answer: the letters it begins with once the white
\* space around it is removed and the case folded.
RECURSIVE LeadingLetters(_)
LeadingLetters(chars) ==
    IF chars # <<>> /\ Head(chars) \in {UpperCase[c] : c \in DOMAIN UpperCase}
    THEN <<Head(chars)>> \o LeadingLetters(Tail(chars))
    ELSE <<>>
FirstToken(chars) == LeadingLetters(toUpperCase(Trim(chars)))

\* C33: the classifier call returns true only for an answer whose first
\* token, white space trimmed and case ignored, is YES; every other answer
\* text (empty, NO, anything else) gives false.
C33_TrueOnlyOnLeadingYes ==
    scraper.answer.kind = "string"
        => /\ scraper.verdict \in {"yes", "no"}
           /\ scraper.verdict = "yes"
                 => FirstToken(scraper.answer.value) = <<"Y", "E", "S">>

\* C34: the account scanAccountImages reads back from the file name of a
\* capture (the part before the rightmost underscore) is the sanitized
\* handle the name was built from, handles with underscores included, and
\* the part after that underscore is the HH-MM-SS time.
C34_FileNameRoundTrip ==
    capture.pc # "open"
        => \A n \in DOMAIN capture.dir :
              LET name == Basename(capture.dir[n].file)
                  account == capture.listed[n]
              IN /\ account = Str(sanitize(capture.dir[n].username))
                 /\ SubSeq(name, Len(account.value) + 2, Len(name)) =
                       capture.dir[n].time

C34_Witness ==
    /\ capture.pc = "listed"
    /\ \E n \in DOMAIN capture.dir :
          /\ capture.dir[n].username = <<"a", ".", "b">>
          /\ capture.listed[n] = Str(<<"a", "_", "b">>)
    /\ \E n \in DOMAIN capture.dir :
          /\ capture.dir[n].username = <<"a", "_", "1">>
          /\ capture.listed[n] = Str(<<"a", "_", "1">>)

\* C35: the account set of a history entry is the set of accounts that
\* scanAccountImages assigns to the reviewed keys, whatever the account
\* names (an underscore followed by a digit included).
C35_HistoryAccountsAsScanned ==
    capture.pc = "recorded"
        => capture.accounts =
              {capture.listed[n].value :
                  n \in {m \in DOMAIN capture.listed :
                           capture.listed[m] # NoValue}}

\* The resolved path lies in the events directory (or is the directory).
InEventsDir(path) ==
    /\ Len(path) >= Len(eventsDir)
    /\ SubSeq(path, 1, Len(eventsDir)) = eventsDir

\* C40: the scene-scout handler answers 403 to every request whose decoded
\* path resolves outside the events directory (a sibling directory whose
\* name begins with the name of the events directory included) and fetches
\* a file only when the resolved path is inside it.
C40_OnlyEventsDirServed ==
    request.pc = "answered"
        => /\ ~InEventsDir(request.resolved) => request.status = "403"
           /\ request.status = "fetch" => InEventsDir(request.resolved)

\* C36: whenever the traversal has just emitted a progress line, the
\* caller's scanProgress.currentStory is the traversal's storyCount and
\* scanProgress.eventCount its eventCount; after the Done line both are the
\* counts of the ScanResult returned.
C36_ProgressTracksCounts ==
    [][/\ scraper'.log # scraper.log
          => /\ scraper'.scanProgress.currentStory = scraper'.storyCount
             /\ scraper'.scanProgress.eventCount = scraper'.eventCount
       /\ (scraper'.pc = "done" /\ scraper.log = "Done")
          => /\ scraper'.scanProgress.currentStory = scraper'.result.storyCount
             /\ scraper'.scanProgress.eventCount = scraper'.result.eventCount]_vars

\* C37: every runScraper call ends and returns a ScanResult, whatever the
\* feed does, a feed that stays in the story view at one location while
\* the advance and the skip succeed without effect included.
C37_EveryRunEnds ==
    <>(scraper.pc = "done")

\* C38: every pass of the loop that stays in the story view and does not
\* take the recovery skip counts a story, then captures a frame and has it
\* classified, the passes on an unchanged location (stuck counter 1 or 2)
\* included; the recovery skip comes only after three counted and captured
\* passes, so a story that stays at one location is counted and classified
\* three times and can be saved more than once.
C38_UnchangedLocationStillProcessed ==
    [][/\ (scraper.pc = "head" /\ scraper'.pc # "finally"
                               /\ scraper'.skips = scraper.skips)
          => /\ scraper'.pc = "user"
             /\ scraper'.storyCount = scraper.storyCount + 1
             /\ scraper'.stuckCount \in 0..(MAX_STUCK - 1)
       /\ scraper.pc = "user" => scraper'.pc = "shot"
       /\ scraper.pc = "shot"
          => \/ scraper'.pc = "classify" /\ scraper'.shots = scraper.shots + 1
             \/ scraper'.pc = "catch"
       /\ scraper.pc = "classify"
          => /\ scraper'.pc \in {"save", "dwell"}
             /\ scraper'.verdict \in {"yes", "no", "throws"}
       /\ scraper'.skips # scraper.skips
          => /\ scraper.stuckCount = MAX_STUCK - 1
             /\ scraper.storyCount >= MAX_STUCK
             /\ scraper.shots >= MAX_STUCK]_vars

C38_Witness ==
    /\ scraper.skips = 1
    /\ scraper.iter = MAX_STUCK + 1
    /\ scraper.storyCount = MAX_STUCK
    /\ scraper.shots = MAX_STUCK
    /\ scraper.saved >= 2

\* C39: a review that completes while a hide-account or unhide-account call
\* waits for its directory scan is not lost: when that call completes, the
\* reviewed key is still in the set the review put it in, unless it is a key
\* of the account being un-hidden.
C39_ReviewSurvivesHideUnhide ==
    [][\A i \in DOMAIN pending :
         (/\ hideAccountThen(i) \/ unhideAccountThen(i)
          /\ last.ev = "review"
          /\ ~(pending[i].op = "unhide"
               /\ last.key.account = pending[i].username))
         => IF last.approved
            THEN Includes(reviewedEvents', last.key)
            ELSE Includes(rejectedEvents', last.key)]_vars

====
